---- MODULE Spec2Model ----
(***************************************************************************)
(* Work exchange and validation protocol of the ERC-8004 example agents:   *)
(* ServerAgent (src/agents/server_agent.py), ValidatorAgent                *)
(* (src/agents/validator_agent.py) and the orchestration of src/demo.py.   *)
(*                                                                         *)
(* Texts are sequences of tokens.  A token is either a single character    *)
(* (a digit, ":", " ", "/", "%", "-", ...) or a whole word; words are      *)
(* atomic, so a regular expression or a substring test that names a word   *)
(* is decided token by token (see WordContains for the one word of the     *)
(* alphabet that contains another).                                        *)
(***************************************************************************)
EXTENDS Integers, Sequences, FiniteSets, TLC

VARIABLES
    text,        \* SpecScore: the validation_result handed to the extractor
    score,       \* SpecScore: <<n>> once _extract_validation_score returned n, <<>> before
    consulted,   \* SpecScore: the patterns re.findall was run on
    package,     \* SpecFallback: the analysis_package handed to the fallback validator
    report,      \* SpecFallback: <<r>> once _create_fallback_validation returned r
    pkg_a,       \* SpecHash: a package
    pkg_b,       \* SpecHash: another package, or the same built in another order
    hash_a,      \* SpecHash: the hex hashes computed of pkg_a so far, in order
    hash_b,      \* SpecHash: the hex hashes computed of pkg_b so far
    dataFiles,         \* the files data/<hash>.json: hex hash -> package
    validationFiles,   \* the files validations/<hash>.json: hex hash -> validation package
    registry,          \* the calls made to the registry contracts, failed ones included
    hashSeed,          \* hash(symbol) % 2 of this interpreter run, per symbol
    s_pc,        \* producer: idle, built, stored, submitted, failed, aborted
    s_pkg,       \* producer: the analysis_package its caller holds
    s_path,      \* producer: whether the crew (primary) or the fallback wrote s_pkg's analysis
    s_out,       \* producer: what submit_work_for_validation gave its caller
    v_pc,        \* validator: idle, validated, stored, responded, failed, aborted
    v_hash,      \* validator: the data_hash validate_analysis was called with
    v_out,       \* validator: what validate_analysis returned
    v_calls,     \* validator: the collaborators validate_analysis invoked in that call
    v_sent,      \* validator: what submit_validation_response gave its caller
    calls,       \* history: how often perform_market_analysis / validate_analysis ran
    d_pc,        \* demo: where main() stands ("exit": returned, "raised": left by an
                 \* exception); "off" when another caller drives the agents
    d_trace,     \* demo: the steps of the exchange completed so far, in order
    d_exit,      \* demo: <<code, step>> once main() returned code after that step
    r_files,     \* SpecRace: path -> the blocks the file holds, as the disk shows them
    r_writers,   \* SpecRace: per writer its path, its content and how far it got
    r_reader,    \* SpecRace: the reader's call: where it stands, the bytes read so far
    r_read       \* SpecRace: what _load_analysis_package gave the reader

scoreVars == <<text, score, consulted>>

fallbackVars == <<package, report>>

hashVars == <<pkg_a, pkg_b, hash_a, hash_b>>

demoVars == <<d_pc, d_trace, d_exit>>

raceVars == <<r_files, r_writers, r_reader, r_read>>

storeVars == <<dataFiles, validationFiles>>

serverVars == <<s_pc, s_pkg, s_path, s_out>>

validatorVars == <<v_pc, v_hash, v_out, v_calls, v_sent>>

protocolVars ==
    <<dataFiles, validationFiles, registry, hashSeed, s_pc, s_pkg, s_path, s_out,
      v_pc, v_hash, v_out, v_calls, v_sent, calls>>

vars ==
    <<text, score, consulted, package, report, pkg_a, pkg_b, hash_a, hash_b,
      dataFiles, validationFiles, registry, hashSeed, s_pc, s_pkg, s_path, s_out,
      v_pc, v_hash, v_out, v_calls, v_sent, calls,
      d_pc, d_trace, d_exit, r_files, r_writers, r_reader, r_read>>

(***************************************************************************)
(* Bounds of the model.                                                    *)
(***************************************************************************)
\* greatest number of fragments a validation text is assembled from
MaxFrags == 3

\* greatest number of calls of perform_market_analysis in a run
MaxAnalyses == 2

\* greatest number of calls of validate_analysis in a run
MaxValidations == 2

(***************************************************************************)
(* Strings.                                                                *)
(***************************************************************************)
Digits == {"0", "1", "2", "3", "4", "5", "6", "7", "8", "9"}

\* sys.get_int_max_str_digits(): the longest run of digits int() converts
int_max_str_digits == 4300

\* one token for a run of 4301 nines, a number int() does not convert
LongRun == "9{4301}"

\* the characters of the class \d a token stands for
DigitWidth(t) == IF t = LongRun THEN int_max_str_digits + 1 ELSE 1

IsDigit(t) == t \in Digits \cup {LongRun}

DigitVal(t) ==
    CASE t = "0" -> 0 [] t = "1" -> 1 [] t = "2" -> 2 [] t = "3" -> 3
      [] t = "4" -> 4 [] t = "5" -> 5 [] t = "6" -> 6 [] t = "7" -> 7
      [] t = "8" -> 8 [] t = "9" -> 9

\* the characters of the class [:\s] of the two prefix patterns
IsSep(t) == t \in {":", " ", "\n"}

\* str.lower() on one token: the capitalised words of the alphabet
LowerTok(t) ==
    CASE t = "Score" -> "score"
      [] t = "Overall" -> "overall"
      [] t = "Trend" -> "trend"
      [] t = "Trending" -> "trending"
      [] t = "Support" -> "support"
      [] t = "Resistance" -> "resistance"
      [] t = "Recommendation" -> "recommendation"
      [] t = "Risk" -> "risk"
      [] t = "Validation" -> "validation"
      [] t = "Report" -> "report"
      [] t = "Analysis" -> "analysis"
      [] t = "Quality" -> "quality"
      [] t = "Assessment" -> "assessment"
      [] t = "Completeness" -> "completeness"
      [] t = "Required" -> "required"
      [] t = "Missing" -> "missing"
      [] t = "None" -> "none"
      [] t = "Methodology" -> "methodology"
      [] t = "Key" -> "key"
      [] t = "Components" -> "components"
      [] t = "Summary" -> "summary"
      [] t = "The" -> "the"
      [] t = "Note" -> "note"
      [] t = "This" -> "this"
      [] t = "For" -> "for"
      [] t = "AI" -> "ai"
      [] t = "CrewAI" -> "crewai"
      [] t = "OpenAI" -> "openai"
      [] t = "API" -> "api"
      [] t = "BTC" -> "btc"
      [] t = "ETH" -> "eth"
      [] t = "BUY" -> "buy"
      [] t = "HOLD" -> "hold"
      [] t = "Based" -> "based"
      [] t = "Bearish" -> "bearish"
      [] t = "Bullish" -> "bullish"
      [] t = "Confidence" -> "confidence"
      [] t = "Current" -> "current"
      [] t = "Executive" -> "executive"
      [] t = "Findings" -> "findings"
      [] t = "Final" -> "final"
      [] t = "LLM" -> "llm"
      [] t = "Level" -> "level"
      [] t = "Market" -> "market"
      [] t = "OPENAI_API_KEY" -> "openai_api_key"
      [] t = "Traders" -> "traders"
      [] OTHER -> t

Lower(s) == [i \in 1..Len(s) |-> LowerTok(s[i])]

\* `kw in tok` for a lower-case word token: the word itself, or a longer word
\* of the alphabet that has it as a substring
WordContains(tok, kw) ==
    \/ tok = kw
    \/ tok = "inadequate" /\ kw = "adequate"
    \/ tok = "unacceptable" /\ kw = "acceptable"
    \/ tok = "trending" /\ kw = "trend"
    \/ tok = "risky" /\ kw = "risk"

\* `kw in s` for a text
Contains(s, kw) == \E i \in 1..Len(s) : WordContains(s[i], kw)

RECURSIVE DigitRunEnd(_, _)
\* \d+ from position i, greedy: the index of the last digit of the run (i-1: none)
DigitRunEnd(s, i) ==
    IF i <= Len(s) /\ IsDigit(s[i]) THEN DigitRunEnd(s, i + 1) ELSE i - 1

RECURSIVE SepRunEnd(_, _)
\* [:\s]+ from position i, greedy: the index of the last separator (i-1: none)
SepRunEnd(s, i) ==
    IF i <= Len(s) /\ IsSep(s[i]) THEN SepRunEnd(s, i + 1) ELSE i - 1

RECURSIVE DigitCount(_)
\* len() of a run of decimal digits
DigitCount(ds) ==
    IF ds = <<>> THEN 0 ELSE DigitWidth(Head(ds)) + DigitCount(Tail(ds))

\* int(ds) raises ValueError: the run exceeds the limit for integer string
\* conversion
int_raises(ds) == DigitCount(ds) > int_max_str_digits

RECURSIVE ToInt(_)
\* int() of a run of decimal digits that it converts
ToInt(ds) ==
    IF ds = <<>> THEN 0
    ELSE 10 * ToInt(SubSeq(ds, 1, Len(ds) - 1)) + DigitVal(ds[Len(ds)])

RECURSIVE ToDigits(_)
\* str() of a natural number, as digit tokens
ToDigits(n) ==
    IF n < 10 THEN <<CHOOSE d \in Digits : DigitVal(d) = n>>
    ELSE Append(ToDigits(n \div 10), CHOOSE d \in Digits : DigitVal(d) = n % 10)

\* s has the tokens of lit from position i on
HasAt(s, i, lit) ==
    /\ i + Len(lit) - 1 <= Len(s)
    /\ \A k \in 1..Len(lit) : s[i + k - 1] = lit[k]

(***************************************************************************)
(* ValidatorAgent._extract_validation_score.                               *)
(***************************************************************************)
\* the four regular expressions, in the order of the list
\* a pattern is a word, a run of [:\s] and the captured digits ("prefix"), or
\* the captured digits and a literal ("suffix")
PrefixPattern(w) == [kind |-> "prefix", word |-> w, lit |-> <<>>]

SuffixPattern(l) == [kind |-> "suffix", word |-> "", lit |-> l]

\* the list with the percent pattern moved to the front
ScorePatternsBadOrder ==
    << SuffixPattern(<<"%">>),
       PrefixPattern("score"),
       SuffixPattern(<<"/", "1", "0", "0">>),
       PrefixPattern("overall") >>

score_patterns ==
    << PrefixPattern("score"),                    \* score[:\s]+(\d+)
       SuffixPattern(<<"/", "1", "0", "0">>),      \* (\d+)/100
       SuffixPattern(<<"%">>),                     \* (\d+)%
       PrefixPattern("overall") >>                \* overall[:\s]+(\d+)

NoMatch == [ok |-> FALSE, cap |-> <<>>, end |-> 0]

\* the match of pattern p that starts exactly at position i of s, if any:
\* the captured digits and the index of the last token matched
MatchAt(p, s, i) ==
    IF p.kind = "prefix"
    THEN IF s[i] = p.word /\ SepRunEnd(s, i + 1) >= i + 1
         THEN LET d == SepRunEnd(s, i + 1) + 1
                  e == DigitRunEnd(s, d)
              IN  IF e >= d THEN [ok |-> TRUE, cap |-> SubSeq(s, d, e), end |-> e]
                  ELSE NoMatch
         ELSE NoMatch
    ELSE LET e == DigitRunEnd(s, i)
         IN  IF e >= i /\ HasAt(s, e + 1, p.lit)
             THEN [ok |-> TRUE, cap |-> SubSeq(s, i, e), end |-> e + Len(p.lit)]
             ELSE NoMatch

RECURSIVE FindAllFrom(_, _, _)
\* re.findall(pattern, s): the captures of the non-overlapping matches, found
\* left to right: the leftmost match at or after i, then the search resumes
\* after its end
FindAllFrom(p, s, i) ==
    LET starts == { j \in i..Len(s) : MatchAt(p, s, j).ok }
    IN  IF starts = {} THEN <<>>
        ELSE LET j == CHOOSE a \in starts : \A b \in starts : a <= b
                 m == MatchAt(p, s, j)
             IN  <<m.cap>> \o FindAllFrom(p, s, m.end + 1)

FindAll(p, s) == FindAllFrom(p, s, 1)

Min(a, b) == IF a < b THEN a ELSE b

Max(a, b) == IF a > b THEN a ELSE b

\* matches[0] instead of matches[-1]
PickMatchFirst(matches) == matches[1]

\* matches[-1]
PickMatch(matches) == matches[Len(matches)]

\* score = int(matches[-1]) without the clamp
ClampScoreNone(n) == n

\* min(100, max(0, score))
ClampScore(n) == Min(100, Max(0, n))

\* a ladder that tests the rungs in another order
SentimentScoreBadOrder(low) ==
    IF Contains(low, "poor") \/ Contains(low, "inadequate") THEN 45
    ELSE IF Contains(low, "adequate") \/ Contains(low, "acceptable") THEN 75
    ELSE IF Contains(low, "good") \/ Contains(low, "solid") THEN 85
    ELSE IF Contains(low, "excellent") \/ Contains(low, "outstanding") THEN 95
    ELSE 70

\* the keyword heuristic on the lower-cased text
SentimentScore(low) ==
    IF Contains(low, "excellent") \/ Contains(low, "outstanding") THEN 95
    ELSE IF Contains(low, "good") \/ Contains(low, "solid") THEN 85
    ELSE IF Contains(low, "adequate") \/ Contains(low, "acceptable") THEN 75
    ELSE IF Contains(low, "poor") \/ Contains(low, "inadequate") THEN 45
    ELSE 70

RECURSIVE FirstMatching(_, _)
\* the for loop over score_patterns from index k: the index of the first
\* pattern with a match (0: none)
FirstMatching(low, k) ==
    IF k > Len(score_patterns) THEN 0
    ELSE IF FindAll(score_patterns[k], low) # <<>> THEN k
    ELSE FirstMatching(low, k + 1)

\* the patterns the loop ran re.findall on before it returned or ended
PatternsTried(validation_result) ==
    LET k == FirstMatching(Lower(validation_result), 1)
    IN  { score_patterns[i] :
            i \in IF k = 0 THEN 1..Len(score_patterns) ELSE 1..k }

\* the body of the try, and `except Exception: return 70` around it
extract_validation_score(validation_result) ==
    LET low == Lower(validation_result)
        k == FirstMatching(low, 1)
    IN  IF k # 0
        THEN LET last == PickMatch(FindAll(score_patterns[k], low))
             IN  IF int_raises(last) THEN 70 ELSE ClampScore(ToInt(last))
        ELSE SentimentScore(low)

(***************************************************************************)
(* Dictionaries.  A dict is the sequence of its <<key, value>> pairs in    *)
(* insertion order, every value a sequence of tokens.                      *)
(***************************************************************************)
Keys(d) == { d[i][1] : i \in 1..Len(d) }

\* key in d
HasKey(d, k) == k \in Keys(d)

\* d[key], for a key of d
Get(d, k) == d[CHOOSE i \in 1..Len(d) : d[i][1] = k][2]

\* d.get(key, default)
GetOr(d, k, default) == IF HasKey(d, k) THEN Get(d, k) ELSE default

(***************************************************************************)
(* ValidatorAgent._create_fallback_validation.                             *)
(***************************************************************************)
required_fields == <<"symbol", "analysis", "timestamp", "agent_id">>

key_components == <<"trend", "support", "resistance", "recommendation", "risk">>

\* [field for field in required_fields if field not in analysis_package]
missing_fields(analysis_package) ==
    LET absent(f) == ~HasKey(analysis_package, f)
    IN  SelectSeq(required_fields, absent)

\* a penalty of 20 instead of 25 for a missing field
CompletenessScorePenalty20(missing) ==
    IF missing = <<>> THEN 100 ELSE Max(0, 100 - Len(missing) * 20)

\* 100 if not missing_fields else max(0, 100 - len(missing_fields) * 25)
completeness_score(missing) ==
    IF missing = <<>> THEN 100 ELSE Max(0, 100 - Len(missing) * 25)

\* a version that reads the payload under the key "report"
AnalysisTextOfReport(analysis_package) ==
    Lower(GetOr(analysis_package, "report", <<>>))

\* str(analysis_package.get("analysis", "")).lower()
analysis_text(analysis_package) == Lower(GetOr(analysis_package, "analysis", <<>>))

\* [comp for comp in key_components if comp in analysis_text]
found_components(analysis_package) ==
    LET found(c) == Contains(analysis_text(analysis_package), c)
    IN  SelectSeq(key_components, found)

\* a version that takes the share of four components
MethodologyScoreOfFour(found) == (Len(found) * 100) \div 4

\* (len(found_components) / len(key_components)) * 100: one of the floats 0.0,
\* 20.0, 40.0, 60.00000000000001, 80.0, 100.0; the excess of the fourth is lost
\* both in int((completeness + methodology) / 2) and in the format :.0f
methodology_score(found) == (Len(found) * 100) \div Len(key_components)

\* int((completeness_score + methodology_score) / 2)
overall_score(completeness, methodology) == (completeness + methodology) \div 2

\* the words of a line, one space between two
RECURSIVE Words(_)
Words(ws) ==
    IF ws = <<>> THEN <<>>
    ELSE IF Len(ws) = 1 THEN <<ws[1]>>
    ELSE <<ws[1], " ">> \o Words(Tail(ws))

\* str() of a list of strings: ['a', 'b']
RECURSIVE ListItems(_)
ListItems(xs) ==
    IF xs = <<>> THEN <<>>
    ELSE IF Len(xs) = 1 THEN <<"'", xs[1], "'">>
    ELSE <<"'", xs[1], "'", ",", " ">> \o ListItems(Tail(xs))

StrList(xs) == <<"[">> \o ListItems(xs) \o <<"]">>

\* ', '.join(xs)
RECURSIVE JoinComma(_)
JoinComma(xs) ==
    IF xs = <<>> THEN <<>>
    ELSE IF Len(xs) = 1 THEN <<xs[1]>>
    ELSE <<xs[1], ",", " ">> \o JoinComma(Tail(xs))

\* the report, token by token: a word ([A-Za-z_]+) or one character
create_fallback_validation(analysis_package) ==
    LET missing == missing_fields(analysis_package)
        completeness == completeness_score(missing)
        found == found_components(analysis_package)
        methodology == methodology_score(found)
        overall == overall_score(completeness, methodology)
        quality == IF overall >= 80 THEN "good"
                   ELSE IF overall >= 60 THEN "adequate" ELSE "basic"
        coverage == IF Len(found) >= 4 THEN "comprehensive" ELSE "partial"
    IN  <<"\n", "#", " ">> \o Words(<<"Validation", "Report">>) \o <<"\n", "\n">>
        \o <<"#", "#", " ">> \o Words(<<"Analysis", "Quality", "Assessment">>)
        \o <<"\n", "\n">>
        \o <<"#", "#", "#", " ">> \o Words(<<"Completeness", "Score">>) \o <<":", " ">>
        \o ToDigits(completeness) \o <<"/", "1", "0", "0", "\n">>
        \o <<"-", " ">> \o Words(<<"Required", "fields", "present">>) \o <<":", " ">>
        \o ToDigits(Len(required_fields) - Len(missing)) \o <<"/">>
        \o ToDigits(Len(required_fields)) \o <<"\n">>
        \o <<"-", " ">> \o Words(<<"Missing", "fields">>) \o <<":", " ">>
        \o (IF missing # <<>> THEN StrList(missing) ELSE <<"None">>) \o <<"\n", "\n">>
        \o <<"#", "#", "#", " ">> \o Words(<<"Methodology", "Score">>) \o <<":", " ">>
        \o ToDigits(methodology) \o <<"/", "1", "0", "0", "\n">>
        \o <<"-", " ">> \o Words(<<"Key", "components", "found">>) \o <<":", " ">>
        \o ToDigits(Len(found)) \o <<"/">> \o ToDigits(Len(key_components)) \o <<"\n">>
        \o <<"-", " ">> \o <<"Components">> \o <<":", " ">> \o JoinComma(found)
        \o <<"\n", "\n">>
        \o <<"#", "#", "#", " ">> \o Words(<<"Overall", "Validation", "Score">>)
        \o <<":", " ">> \o ToDigits(overall) \o <<"/", "1", "0", "0", "\n", "\n">>
        \o <<"#", "#", " ">> \o <<"Summary", "\n">>
        \o Words(<<"The", "analysis", "demonstrates", quality, "quality", "with",
                   coverage, "coverage", "of", "required", "analytical",
                   "components">>) \o <<".", "\n", "\n">>
        \o <<"*">> \o <<"Note">> \o <<":", " ">>
        \o Words(<<"This", "validation", "was", "performed", "using", "fallback",
                   "logic">>) \o <<".", " ">>
        \o Words(<<"For", "AI">>) \o <<"-">>
        \o Words(<<"powered", "validation", "with", "CrewAI">>) \o <<",", " ">>
        \o Words(<<"please", "configure", "your", "OpenAI", "API", "key">>)
        \o <<".", "*", "\n">>

(***************************************************************************)
(* ServerAgent._create_fallback_analysis.                                  *)
(***************************************************************************)
\* "bullish" if hash(symbol) % 2 == 0 else "bearish"
Trend(parity) == IF parity = 0 THEN "bullish" ELSE "bearish"

\* analysis['trend'].title()
TrendTitle(parity) == IF parity = 0 THEN "Bullish" ELSE "Bearish"

\* "BUY" if hash(symbol) % 2 == 0 else "HOLD"
Recommendation(parity) == IF parity = 0 THEN "BUY" ELSE "HOLD"

\* f"{45000 if symbol == 'BTC' else 2800:,}"
SupportLevel(symbol) ==
    IF symbol = "BTC" THEN <<"4", "5", ",", "0", "0", "0">>
    ELSE <<"2", ",", "8", "0", "0">>

\* f"{52000 if symbol == 'BTC' else 3200:,}"
ResistanceLevel(symbol) ==
    IF symbol = "BTC" THEN <<"5", "2", ",", "0", "0", "0">>
    ELSE <<"3", ",", "2", "0", "0">>

Bold(ws) == <<"*", "*">> \o Words(ws) \o <<"*", "*">>

\* the report, token by token; parity is hash(symbol) % 2
create_fallback_analysis(symbol, timeframe, parity) ==
    <<"\n", "#", " ">>
    \o Words(<<"Market", "Analysis", "Report", "for", symbol>>) \o <<"\n", "\n">>
    \o <<"#", "#", " ">> \o Words(<<"Executive", "Summary">>) \o <<"\n">>
    \o Words(<<"Based", "on", "technical", "analysis", "of", symbol, "over", "the">>)
    \o <<" ">> \o timeframe \o <<" ", "timeframe", ",", " ">>
    \o Words(<<"the", "market", "shows", "a">>) \o <<" ">>
    \o Bold(<<Trend(parity)>>) \o <<" ">> \o Words(<<"trend", "with">>) \o <<" ">>
    \o Bold(<<"medium">>) \o <<" ">> \o Words(<<"risk", "levels">>)
    \o <<".", "\n", "\n">>
    \o <<"#", "#", " ">> \o Words(<<"Key", "Findings">>) \o <<"\n">>
    \o <<"-", " ">> \o Bold(<<"Current", "Trend">>) \o <<":", " ">>
    \o <<TrendTitle(parity), "\n">>
    \o <<"-", " ">> \o Bold(<<"Support", "Level">>) \o <<":", " ", "$">>
    \o SupportLevel(symbol) \o <<"\n">>
    \o <<"-", " ">> \o Bold(<<"Resistance", "Level">>) \o <<":", " ", "$">>
    \o ResistanceLevel(symbol) \o <<"\n">>
    \o <<"-", " ">> \o Bold(<<"Confidence", "Level">>) \o <<":", " ">>
    \o <<"7", "5", "%", "\n", "\n">>
    \o <<"#", "#", " ">> \o <<"Recommendation", "\n">>
    \o Bold(<<Recommendation(parity)>>) \o <<" ", "-", " ">>
    \o Words(<<"This", "is", "a", "fallback", "analysis", "generated", "without",
               "LLM">>) \o <<".", " ">>
    \o Words(<<"For", "full", "AI">>) \o <<"-">> \o Words(<<"powered", "analysis">>)
    \o <<",", " ">> \o Words(<<"please", "configure", "OPENAI_API_KEY">>)
    \o <<".", "\n", "\n">>
    \o <<"#", "#", " ">> \o Words(<<"Risk", "Assessment">>) \o <<"\n">>
    \o Words(<<"The", "current", "market", "conditions", "present", "medium",
               "risk", "levels">>) \o <<".", " ">>
    \o Words(<<"Traders", "should", "exercise", "appropriate", "caution", "and",
               "position", "sizing">>) \o <<".", "\n", "\n">>
    \o <<"*">> \o <<"Note">> \o <<":", " ">>
    \o Words(<<"This", "analysis", "was", "generated", "using", "fallback",
               "logic">>) \o <<".", " ">>
    \o Words(<<"For", "AI">>) \o <<"-">>
    \o Words(<<"powered", "analysis", "with", "CrewAI">>) \o <<",", " ">>
    \o Words(<<"please", "configure", "your", "OpenAI", "API", "key">>)
    \o <<".", "*", "\n">>

(***************************************************************************)
(* The collaborators.  The registry calls live in the base agent, which is *)
(* not part of the sources at hand: a call either returns a transaction    *)
(* hash or raises.  The engines (crew.kickoff()) return a text or raise.   *)
(***************************************************************************)
\* the symbols analysed; the demonstration analyses "BTC"
Symbols == {"BTC"}

Timeframes == { <<"1", "d">> }

\* w3.eth.get_block('latest')['timestamp'], as json prints it
BlockTimestamp == <<"1", "0", "0", "0">>

\* agent ids handed out by the identity registry
AliceId == 1

BobId == 2

CharlieId == 3

AgentIdText(id) == ToDigits(id)

AliceDomain == <<"alice", ".", "example", ".", "com">>

BobDomain == <<"bob", ".", "example", ".", "com">>

\* what the analysis crew may return
PrimaryAnalyses ==
    { Words(<<"trend", "is", "bullish">>) \o <<",", " ">>
        \o Words(<<"support", "at">>) \o <<" ", "4", "5", "0", "0", "0", ",", " ">>
        \o Words(<<"resistance", "at">>) \o <<" ", "5", "2", "0", "0", "0", ",", " ">>
        \o Words(<<"recommendation", "BUY">>) \o <<",", " ">>
        \o Words(<<"risk", "medium">>) }

\* what the validation crew may return
PrimaryValidations ==
    { Words(<<"Final", "validation", "score">>) \o <<":", " ", "8", "5">>,
      Words(<<"Overall", "score">>) \o <<":", " ", "1", "5", "0">> }

EngineFailure == <<"EngineError">>

AnalysisOutcomes == PrimaryAnalyses \cup {EngineFailure}

ValidationOutcomes == PrimaryValidations \cup {EngineFailure}

\* a registry call: the function and its arguments
RegistryCall(fn, agent, hash, n) ==
    [fn |-> fn, agent |-> agent, hash |-> hash, score |-> n]

\* self.request_validation(validator_agent_id, data_hash): requestValidation
\* reaches the validation registry, whether the transaction then goes through
\* or not
request_validation(validator_agent_id, data_hash) ==
    registry' = registry \cup
        {RegistryCall("requestValidation", validator_agent_id, data_hash, 0)}

\* self.authorize_feedback(client_agent_id), likewise: acceptFeedback reaches
\* the reputation registry; the call names no hash and no score
authorize_feedback(server_agent_id, client_agent_id) ==
    registry' = registry \cup
        {RegistryCall("authorizeFeedback", client_agent_id, <<"none">>, 0)}

\* super().submit_validation_response(data_hash, score), likewise
submit_validation_response(validator_agent_id, data_hash, n) ==
    registry' = registry \cup
        {RegistryCall("submitValidationResponse", validator_agent_id, data_hash, n)}

(***************************************************************************)
(* Canonical encoding and content hash.                                    *)
(***************************************************************************)
\* the keys of the packages and of their metadata, in the order
\* sort_keys=True puts them
SortedKeys ==
    <<"agent_domain", "agent_id", "analysis", "analysis_method", "crew_agents",
      "metadata", "symbol", "tasks_completed", "timeframe", "timestamp">>

\* the keys whose value is itself a dict
NestedKeys == {"metadata"}

\* a value json cannot encode (a set, an object): json.dumps raises TypeError
NotSerializable == <<"<object>">>

\* json.dumps / json.dump raise on this dict
json_raises(d) == \E i \in 1..Len(d) : d[i][2] = NotSerializable

\* a reader that leaves the escapes of a string as they are
UnescapeTokNone(t) == t

\* one token of a string as json writes it inside the quotes
EscapeTok(t) ==
    CASE t = "\n" -> "\\n"
      [] t = "\"" -> "\\\""
      [] t = "\\" -> "\\\\"
      [] OTHER -> t

\* and as json reads it back
UnescapeTok(t) ==
    CASE t = "\\n" -> "\n"
      [] t = "\\\"" -> "\""
      [] t = "\\\\" -> "\\"
      [] OTHER -> t

\* a value all of digits stands for an int
IsNumber(v) == v # <<>> /\ \A i \in 1..Len(v) : IsDigit(v[i])

\* an int or a str as json writes it: the digits, or the escaped text in quotes
JsonScalar(v) ==
    IF IsNumber(v) THEN v
    ELSE <<"\"">> \o [i \in 1..Len(v) |-> EscapeTok(v[i])] \o <<"\"">>

\* and as json reads it back
ParseScalar(j) ==
    IF j[1] = "\"" THEN [i \in 1..(Len(j) - 2) |-> UnescapeTok(j[i + 1])]
    ELSE j

\* the order json writes the keys of d in
KeyOrder(d, sort_keys) ==
    IF sort_keys THEN SelectSeq(SortedKeys, LAMBDA k : HasKey(d, k))
    ELSE [i \in 1..Len(d) |-> d[i][1]]

\* the items of a dict of ints and strs
JsonLeafItems(d, sort_keys) ==
    LET ks == KeyOrder(d, sort_keys)
    IN  [i \in 1..Len(ks) |-> <<ks[i], JsonScalar(Get(d, ks[i]))>>]

\* the items of a package: the dict under a key of NestedKeys is written the
\* same way, sort_keys reaching into it
JsonItems(d, sort_keys) ==
    LET ks == KeyOrder(d, sort_keys)
    IN  [i \in 1..Len(ks) |->
            <<ks[i], IF ks[i] \in NestedKeys
                     THEN JsonLeafItems(Get(d, ks[i]), sort_keys)
                     ELSE JsonScalar(Get(d, ks[i]))>>]

\* the text of a dict: its items in the layout of the call; the dict without
\* keys is written "{}" whatever the layout
JsonText(layout, items) ==
    IF items = <<>> THEN <<"json", "{}", <<>>>> ELSE <<"json", layout, items>>

\* json.dumps without sort_keys: the keys in insertion order
CanonicalJsonUnsorted(d) == JsonText("compact", JsonItems(d, FALSE))

\* json.dumps(analysis_package, sort_keys=True): one line, keys sorted
canonical_json(d) == JsonText("compact", JsonItems(d, TRUE))

\* json.dump(analysis_package, f, indent=2): indented, keys in insertion order
json_dump(d) == JsonText("indent=2", JsonItems(d, FALSE))

\* json.load(f): the dict, its keys in the order of the file
json_load(j) ==
    [i \in 1..Len(j[3]) |->
        <<j[3][i][1],
          IF j[3][i][1] \in NestedKeys
          THEN [k \in 1..Len(j[3][i][2]) |->
                   <<j[3][i][2][k][1], ParseScalar(j[3][i][2][k][2])>>]
          ELSE ParseScalar(j[3][i][2])>>]

\* hashlib.sha256(...).digest(): taken to be free of collisions, the digest
\* stands for the bytes it was computed over
sha256(bytes) == <<"digest", bytes>>

\* bytes.hex() / hexdigest()
Hex(digest) == <<"hex", digest[2]>>

\* bytes.fromhex()
FromHex(h) == <<"digest", h[2]>>

DataHash(analysis_package) == sha256(canonical_json(analysis_package))

(***************************************************************************)
(* ServerAgent.                                                            *)
(***************************************************************************)
\* the metadata dict of the analysis package
AnalysisMetadata ==
    << <<"crew_agents", <<"2">>>>,
       <<"tasks_completed", <<"2">>>>,
       <<"analysis_method", Words(<<"CrewAI", "Multi">>) \o <<"-">>
                               \o Words(<<"Agent", "Analysis">>)>> >>

\* the dict perform_market_analysis returns
AnalysisPackage(symbol, timeframe, result) ==
    << <<"symbol", <<symbol>>>>,
       <<"timeframe", timeframe>>,
       <<"timestamp", BlockTimestamp>>,
       <<"agent_id", AgentIdText(AliceId)>>,
       <<"agent_domain", AliceDomain>>,
       <<"analysis", result>>,
       <<"metadata", AnalysisMetadata>> >>

\* result: crew.kickoff(), or the fallback analysis when it raises
analysis_result(symbol, timeframe, outcome) ==
    IF outcome = EngineFailure
    THEN create_fallback_analysis(symbol, timeframe, hashSeed[symbol])
    ELSE outcome

\* the statements of perform_market_analysis and validate_analysis that stand
\* outside the try around crew.kickoff(), and whose exception therefore
\* leaves the method: Task(...) and Crew(...) before it, and
\* self.w3.eth.get_block('latest') after it
RaisePoints == {"Crew", "get_block"}

\* none of them raises
NoRaise == "none"

\* perform_market_analysis(symbol, timeframe); outcome is what crew.kickoff()
\* does: a text, or EngineFailure for an exception; raises is the statement
\* outside the try that raises, if one does: the caller then gets the
\* exception and no package, and keeps what it had
PerformMarketAnalysis(symbol, timeframe, outcome, raises) ==
    /\ s_pc \in {"idle", "submitted", "failed", "aborted", "raised"}
    /\ calls.analysis < MaxAnalyses
    /\ IF raises = NoRaise
       THEN /\ s_pkg' = AnalysisPackage(symbol, timeframe,
                                        analysis_result(symbol, timeframe, outcome))
            /\ s_path' = IF outcome = EngineFailure THEN "fallback" ELSE "primary"
            /\ s_pc' = "built"
            /\ s_out' = "none"
       ELSE /\ s_pc' = "raised"
            /\ s_out' = raises
            /\ UNCHANGED <<s_pkg, s_path>>
    /\ calls' = [calls EXCEPT !.analysis = @ + 1]
    /\ UNCHANGED <<storeVars, registry, hashSeed, validatorVars>>

\* the packages a caller may hand to submit_work_for_validation that were not
\* returned by perform_market_analysis as they are: one with a value json
\* cannot encode, and the dict without keys
CallerPackages ==
    { [i \in 1..Len(p) |->
          IF p[i][1] = "analysis" THEN <<"analysis", NotSerializable>> ELSE p[i]] :
      p \in { AnalysisPackage(sym, tf, <<>>) : sym \in Symbols, tf \in Timeframes } }
    \cup { <<>> }

\* the caller gets a package of its own ready for submit_work_for_validation
HandPackage(analysis_package) ==
    /\ s_pc \in {"idle", "submitted", "failed", "aborted", "raised"}
    /\ calls.analysis < MaxAnalyses
    /\ s_pkg' = analysis_package
    /\ s_path' = "caller"
    /\ s_pc' = "built"
    /\ s_out' = "none"
    /\ calls' = [calls EXCEPT !.analysis = @ + 1]
    /\ UNCHANGED <<storeVars, registry, hashSeed, validatorVars>>

\* a version that keeps the file it finds and writes a second one beside it
StoreAnalysisBeside(files, data_hash, analysis_package) ==
    LET name == IF data_hash \in DOMAIN files
                THEN <<"hex", <<"json", "copy", data_hash[2][3]>>>>
                ELSE data_hash
    IN  [h \in DOMAIN files \cup {name} |->
            IF h = name THEN json_dump(analysis_package) ELSE files[h]]

\* _store_analysis_package: open(f"data/{data_hash}.json", 'w') and json.dump
store_analysis_package(files, data_hash, analysis_package) ==
    [h \in DOMAIN files \cup {data_hash} |->
        IF h = data_hash THEN json_dump(analysis_package) ELSE files[h]]

\* a version that goes on with a package json.dumps cannot encode
SubmitWorkStoreNoAbort ==
    /\ s_pc = "built"
    /\ dataFiles' = store_analysis_package(dataFiles, Hex(DataHash(s_pkg)), s_pkg)
    /\ s_pc' = "stored"
    /\ UNCHANGED <<validationFiles, registry, hashSeed, s_pkg, s_path, s_out,
                   validatorVars, calls>>

\* submit_work_for_validation, up to the registry call: hash, then store;
\* the TypeError of json.dumps leaves the method before either
SubmitWorkStore ==
    /\ s_pc = "built"
    /\ IF json_raises(s_pkg)
       THEN /\ s_pc' = "aborted"
            /\ s_out' = "TypeError"
            /\ UNCHANGED dataFiles
       ELSE /\ dataFiles' =
                 store_analysis_package(dataFiles, Hex(DataHash(s_pkg)), s_pkg)
            /\ s_pc' = "stored"
            /\ UNCHANGED s_out
    /\ UNCHANGED <<validationFiles, registry, hashSeed, s_pkg, s_path,
                   validatorVars, calls>>

\* a version that takes the stored file away again when the registry call fails
SubmitWorkRequestRollback(validator_agent_id, ok) ==
    /\ s_pc = "stored"
    /\ request_validation(validator_agent_id, DataHash(s_pkg))
    /\ s_pc' = IF ok THEN "submitted" ELSE "failed"
    /\ s_out' = IF ok THEN "tx_hash" ELSE "RegistryError"
    /\ dataFiles' = IF ok THEN dataFiles
                    ELSE [h \in DOMAIN dataFiles \ {Hex(DataHash(s_pkg))} |-> dataFiles[h]]
    /\ UNCHANGED <<validationFiles, hashSeed, s_pkg, s_path, validatorVars, calls>>

\* a version that sends the request before the package is stored
SubmitWorkRequestFirst(validator_agent_id, ok) ==
    /\ s_pc \in {"built", "stored"}
    /\ request_validation(validator_agent_id, DataHash(s_pkg))
    /\ s_pc' = IF ok THEN "submitted" ELSE "failed"
    /\ s_out' = IF ok THEN "tx_hash" ELSE "RegistryError"
    /\ UNCHANGED <<storeVars, hashSeed, s_pkg, s_path, validatorVars, calls>>

\* submit_work_for_validation from the registry call on: the transaction hash
\* is returned (ok), or the call's exception leaves the method
SubmitWorkRequest(validator_agent_id, ok) ==
    /\ s_pc = "stored"
    /\ request_validation(validator_agent_id, DataHash(s_pkg))
    /\ s_pc' = IF ok THEN "submitted" ELSE "failed"
    /\ s_out' = IF ok THEN "tx_hash" ELSE "RegistryError"
    /\ UNCHANGED <<storeVars, hashSeed, s_pkg, s_path, validatorVars, calls>>

\* the caller calls submit_work_for_validation again with the same package
RetrySubmit ==
    /\ s_pc = "failed"
    /\ s_pc' = "built"
    /\ s_out' = "none"
    /\ UNCHANGED <<storeVars, registry, hashSeed, s_pkg, s_path, validatorVars, calls>>

(***************************************************************************)
(* ValidatorAgent.                                                         *)
(***************************************************************************)
\* Python's None, shaped like a dict so that it can be compared with one; no
\* package has the key "None"
None == << <<"None", <<>>>> >>

\* _load_analysis_package: json.load of data/<hash>.json, None when
\* open() raises FileNotFoundError
load_analysis_package(files, data_hash) ==
    IF data_hash \in DOMAIN files THEN json_load(files[data_hash]) ELSE None

NotFoundReport ==
    [error |-> "Analysis package not found", score |-> 0,
     validation_complete |-> FALSE]

ValidationMetadata ==
    [validation_method |-> "CrewAI Multi-Agent Validation",
     validator_agents |-> 2, validation_tasks |-> 2]

\* `not analysis_package`: None, or a dict without keys
Falsy(analysis_package) == analysis_package = None \/ analysis_package = <<>>

\* result: crew.kickoff(), or the fallback validation when it raises
validation_result(analysis_package, outcome) ==
    IF outcome = EngineFailure THEN create_fallback_validation(analysis_package)
    ELSE outcome

\* the dict validate_analysis returns for a package it loaded
ValidationPackage(data_hash, analysis_package, result) ==
    [data_hash |-> data_hash,
     validator_agent_id |-> BobId,
     validator_domain |-> BobDomain,
     timestamp |-> BlockTimestamp,
     validation_score |-> extract_validation_score(result),
     validation_report |-> result,
     original_analysis |-> analysis_package,
     metadata |-> ValidationMetadata]

\* a version that goes on to score a package it did not find
ValidateReturnNoCheck(data_hash, analysis_package, outcome, raises) ==
    IF raises # NoRaise THEN [raised |-> raises]
    ELSE ValidationPackage(data_hash, <<>>, validation_result(<<>>, outcome))

\* what validate_analysis gives its caller: the "not found" answer, the
\* exception of a statement outside the try (lines 162-203 and 221), or the
\* validation package
validate_return(data_hash, analysis_package, outcome, raises) ==
    IF Falsy(analysis_package) THEN NotFoundReport
    ELSE IF raises # NoRaise THEN [raised |-> raises]
    ELSE ValidationPackage(data_hash, analysis_package,
                           validation_result(analysis_package, outcome))

\* the collaborators a call of validate_analysis invokes; the read of the
\* block comes after the engine and the extractor
validate_invokes(analysis_package, outcome, raises) ==
    IF Falsy(analysis_package) \/ raises = "Crew" THEN {"load"}
    ELSE {"load", "engine", "extract"}
         \cup (IF outcome = EngineFailure THEN {"fallback"} ELSE {})

IsValidationPackage(r) == "validation_score" \in DOMAIN r

\* validate_analysis raised instead of returning
HasRaised(r) == "raised" \in DOMAIN r

\* the hashes a caller may hand to validate_analysis: of the producer's
\* package, stored or not, and of every stored file
HashesAround ==
    DOMAIN dataFiles
    \cup (IF s_pc = "idle" \/ json_raises(s_pkg) THEN {} ELSE {Hex(DataHash(s_pkg))})

\* a version that files the record it returns
ValidateAnalysisFiles(data_hash, outcome, raises) ==
    /\ v_pc \in {"idle", "validated", "responded", "failed", "aborted", "raised"}
    /\ calls.validation < MaxValidations
    /\ LET analysis_package == load_analysis_package(dataFiles, data_hash)
           r == validate_return(data_hash, analysis_package, outcome, raises)
       IN  /\ v_out' = r
           /\ v_calls' = validate_invokes(analysis_package, outcome, raises)
           /\ v_pc' = IF HasRaised(r) THEN "raised" ELSE "validated"
           /\ validationFiles' =
                IF IsValidationPackage(r)
                THEN [h \in DOMAIN validationFiles \cup {data_hash} |->
                         IF h = data_hash THEN r ELSE validationFiles[h]]
                ELSE validationFiles
    /\ v_hash' = data_hash
    /\ v_sent' = "none"
    /\ calls' = [calls EXCEPT !.validation = @ + 1]
    /\ UNCHANGED <<dataFiles, registry, hashSeed, serverVars>>

\* validate_analysis(data_hash); outcome is what crew.kickoff() does, raises
\* the statement outside the try that raises, if one does
ValidateAnalysis(data_hash, outcome, raises) ==
    /\ v_pc \in {"idle", "validated", "responded", "failed", "aborted", "raised"}
    /\ calls.validation < MaxValidations
    /\ LET analysis_package == load_analysis_package(dataFiles, data_hash)
           r == validate_return(data_hash, analysis_package, outcome, raises)
       IN  /\ v_out' = r
           /\ v_calls' = validate_invokes(analysis_package, outcome, raises)
           /\ v_pc' = IF HasRaised(r) THEN "raised" ELSE "validated"
    /\ v_hash' = data_hash
    /\ v_sent' = "none"
    /\ calls' = [calls EXCEPT !.validation = @ + 1]
    /\ UNCHANGED <<storeVars, registry, hashSeed, serverVars>>

\* a version that leaves a file it finds as it is
StoreValidationKeepFirst(files, data_hash, validation_package) ==
    [h \in DOMAIN files \cup {data_hash} |->
        IF h \in DOMAIN files THEN files[h] ELSE validation_package]

\* _store_validation_package: open(f"validations/{data_hash}.json", 'w') and
\* json.dump; nothing reads these files back, the model keeps the record
\* written
store_validation_package(files, data_hash, validation_package) ==
    [h \in DOMAIN files \cup {data_hash} |->
        IF h = data_hash THEN validation_package ELSE files[h]]

\* a version that writes over the package file of the same name as well
SubmitResponseStoreClobbers ==
    /\ v_pc = "validated"
    /\ IsValidationPackage(v_out)
    /\ validationFiles' =
         store_validation_package(validationFiles, v_out.data_hash, v_out)
    /\ dataFiles' = store_analysis_package(dataFiles, v_out.data_hash, <<>>)
    /\ v_pc' = "stored"
    /\ UNCHANGED <<registry, hashSeed, serverVars, v_hash, v_out,
                   v_calls, v_sent, calls>>

\* a version that files the answer it is handed whatever it is
SubmitResponseStoreAnyway ==
    /\ v_pc = "validated"
    /\ validationFiles' = store_validation_package(validationFiles, v_hash, v_out)
    /\ v_pc' = IF IsValidationPackage(v_out) THEN "stored" ELSE "responded"
    /\ UNCHANGED <<dataFiles, registry, hashSeed, serverVars, v_hash, v_out,
                   v_calls, v_sent, calls>>

\* submit_validation_response(validation_package), up to the registry call;
\* validation_package["data_hash"] raises KeyError on a dict without that
\* key, which the "not found" answer of validate_analysis is
SubmitResponseStore ==
    /\ v_pc = "validated"
    /\ IF IsValidationPackage(v_out)
       THEN /\ validationFiles' =
                 store_validation_package(validationFiles, v_out.data_hash, v_out)
            /\ v_pc' = "stored"
            /\ UNCHANGED v_sent
       ELSE /\ v_pc' = "aborted"
            /\ v_sent' = "KeyError"
            /\ UNCHANGED validationFiles
    /\ UNCHANGED <<dataFiles, registry, hashSeed, serverVars, v_hash, v_out,
                   v_calls, calls>>

\* a version that calls the registry before the record is written
SubmitResponseSendFirst(ok) ==
    /\ v_pc \in {"validated", "stored"}
    /\ IsValidationPackage(v_out)
    /\ submit_validation_response(BobId, FromHex(v_out.data_hash),
                                  v_out.validation_score)
    /\ v_pc' = IF ok THEN "responded" ELSE "failed"
    /\ v_sent' = IF ok THEN "tx_hash" ELSE "RegistryError"
    /\ UNCHANGED <<storeVars, hashSeed, serverVars, v_hash, v_out, v_calls,
                   calls>>

\* a version that sends half the score of the record
SubmitResponseSendHalf(ok) ==
    /\ v_pc = "stored"
    /\ submit_validation_response(BobId, FromHex(v_out.data_hash),
                                  v_out.validation_score \div 2)
    /\ v_pc' = IF ok THEN "responded" ELSE "failed"
    /\ v_sent' = IF ok THEN "tx_hash" ELSE "RegistryError"
    /\ UNCHANGED <<storeVars, hashSeed, serverVars, v_hash, v_out, v_calls,
                   calls>>

\* submit_validation_response from the registry call on:
\* super().submit_validation_response(data_hash, score)
SubmitResponseSend(ok) ==
    /\ v_pc = "stored"
    /\ submit_validation_response(BobId, FromHex(v_out.data_hash),
                                  v_out.validation_score)
    /\ v_pc' = IF ok THEN "responded" ELSE "failed"
    /\ v_sent' = IF ok THEN "tx_hash" ELSE "RegistryError"
    /\ UNCHANGED <<storeVars, hashSeed, serverVars, v_hash, v_out, v_calls,
                   calls>>

\* the caller calls submit_validation_response again with the same package
RetryResponse ==
    /\ v_pc = "failed"
    /\ v_pc' = "validated"
    /\ v_sent' = "none"
    /\ UNCHANGED <<storeVars, registry, hashSeed, serverVars, v_hash, v_out,
                   v_calls, calls>>

(***************************************************************************)
(* Spec: producer and validator side by side over the two file stores and  *)
(* the registry.                                                           *)
(***************************************************************************)
ProtocolIdle ==
    /\ dataFiles = <<>>
    /\ validationFiles = <<>>
    /\ registry = {}
    /\ s_pc = "idle"
    /\ s_pkg = <<>>
    /\ s_path = "none"
    /\ s_out = "none"
    /\ v_pc = "idle"
    /\ v_hash = <<>>
    /\ v_out = [none |-> TRUE]
    /\ v_calls = {}
    /\ v_sent = "none"
    /\ calls = [analysis |-> 0, validation |-> 0]

DemoOff ==
    /\ d_pc = "off"
    /\ d_trace = <<>>
    /\ d_exit = <<>>

RaceIdle ==
    /\ r_files = <<>>
    /\ r_writers = <<>>
    /\ r_reader = <<>>
    /\ r_read = <<"none">>

\* the agents are driven by a caller other than main() of the demonstration
FreeCaller ==
    /\ d_pc = "off"
    /\ UNCHANGED <<scoreVars, fallbackVars, hashVars, demoVars, raceVars>>

HashIdle ==
    /\ pkg_a = <<>>
    /\ pkg_b = <<>>
    /\ hash_a = <<>>
    /\ hash_b = <<>>

PureIdle ==
    /\ text = <<>>
    /\ score = <<>>
    /\ consulted = {}
    /\ package = <<>>
    /\ report = <<>>
    /\ HashIdle

Init ==
    /\ PureIdle
    /\ ProtocolIdle
    /\ DemoOff
    /\ RaceIdle
    /\ hashSeed \in [Symbols -> {0, 1}]

Next ==
    \/ \E sym \in Symbols, tf \in Timeframes, o \in AnalysisOutcomes,
          at \in RaisePoints \cup {NoRaise} :
          PerformMarketAnalysis(sym, tf, o, at) /\ FreeCaller
    \/ \E p \in CallerPackages :
          HandPackage(p) /\ FreeCaller
    \/ SubmitWorkStore /\ FreeCaller
    \/ \E ok \in BOOLEAN :
          SubmitWorkRequest(BobId, ok) /\ FreeCaller
    \/ RetrySubmit /\ FreeCaller
    \/ \E h \in HashesAround, o \in ValidationOutcomes,
          at \in RaisePoints \cup {NoRaise} :
          ValidateAnalysis(h, o, at) /\ FreeCaller
    \/ SubmitResponseStore /\ FreeCaller
    \/ \E ok \in BOOLEAN :
          SubmitResponseSend(ok) /\ FreeCaller
    \/ RetryResponse /\ FreeCaller

Spec == Init /\ [][Next]_vars

(***************************************************************************)
(* SpecScore: the extractor applied to every text put together from at     *)
(* most MaxFrags fragments.                                                *)
(***************************************************************************)
Keywords ==
    {"excellent", "outstanding", "good", "solid",
     "adequate", "acceptable", "poor", "inadequate"}

Fragments ==
    { <<"score", ":", " ", "4", "0">>,
      <<"Score", ":", " ", "9", "0">>,
      <<"8", "5", "%">>,
      <<"7", "0", "/", "1", "0", "0">>,
      <<"overall", ":", " ", "5", "5">>,
      <<"/", "1", "0", "0">>,
      <<" ">>,
      <<"-">>,
      <<"9">>,
      <<LongRun>> } \cup { <<k>> : k \in Keywords }

RECURSIVE Flatten(_)
Flatten(fs) == IF fs = <<>> THEN <<>> ELSE Head(fs) \o Flatten(Tail(fs))

Texts == { Flatten(fs) : fs \in UNION { [1..n -> Fragments] : n \in 0..MaxFrags } }

InitScore ==
    /\ text \in Texts
    /\ score = <<>>
    /\ consulted = {}
    /\ package = <<>>
    /\ report = <<>>
    /\ HashIdle
    /\ ProtocolIdle
    /\ DemoOff
    /\ RaceIdle
    /\ hashSeed = [sym \in Symbols |-> 0]

ExtractScore ==
    /\ score = <<>>
    /\ score' = <<extract_validation_score(text)>>
    /\ consulted' = PatternsTried(text)
    /\ UNCHANGED <<text, fallbackVars, hashVars, protocolVars, demoVars, raceVars>>

NextScore == ExtractScore

SpecScore == InitScore /\ [][NextScore]_vars

(***************************************************************************)
(* SpecFallback: the fallback validator applied to every package of        *)
(* FallbackPackages: each choice of the required fields present, and for   *)
(* the payload each set of the five keywords plus a few other words.       *)
(***************************************************************************)
ExtraPayloads ==
    { <<"Trending">>, <<"risky">>, <<"Support", " ", "Resistance">>,
      <<"market", " ", "up">> }

KeywordPayloads ==
    { Words(SelectSeq(key_components, LAMBDA c : c \in S)) : S \in SUBSET
        { key_components[i] : i \in 1..Len(key_components) } }

Payloads == KeywordPayloads \cup ExtraPayloads

FieldValue(f) ==
    CASE f = "symbol" -> <<"BTC">>
      [] f = "timestamp" -> <<"1", "0", "0", "0">>
      [] f = "agent_id" -> <<"7">>

\* the dict with the fields of S, in the order of required_fields, and the payload
PackageOf(S, payload) ==
    LET fields == SelectSeq(required_fields, LAMBDA f : f \in S)
    IN  [i \in 1..Len(fields) |->
            <<fields[i], IF fields[i] = "analysis" THEN payload
                         ELSE FieldValue(fields[i])>>]

FallbackPackages ==
    { PackageOf(S, <<>>) : S \in SUBSET {"symbol", "timestamp", "agent_id"} }
    \cup { PackageOf(S \cup {"analysis"}, p) :
             S \in SUBSET {"symbol", "timestamp", "agent_id"}, p \in Payloads }

InitFallback ==
    /\ package \in FallbackPackages
    /\ report = <<>>
    /\ text = <<>>
    /\ score = <<>>
    /\ consulted = {}
    /\ HashIdle
    /\ ProtocolIdle
    /\ DemoOff
    /\ RaceIdle
    /\ hashSeed = [sym \in Symbols |-> 0]

CreateFallbackValidation ==
    /\ report = <<>>
    /\ report' = <<create_fallback_validation(package)>>
    /\ UNCHANGED <<package, scoreVars, hashVars, protocolVars, demoVars, raceVars>>

\* validate_analysis hands the report to the extractor
ExtractFallbackScore ==
    /\ report # <<>>
    /\ score = <<>>
    /\ text' = report[1]
    /\ score' = <<extract_validation_score(report[1])>>
    /\ consulted' = PatternsTried(report[1])
    /\ UNCHANGED <<package, report, hashVars, protocolVars, demoVars, raceVars>>

NextFallback == CreateFallbackValidation \/ ExtractFallbackScore

SpecFallback == InitFallback /\ [][NextFallback]_vars

(***************************************************************************)
(* SpecHash: the content hash of two packages, each one of a few contents  *)
(* built in one of a few insertion orders, top level and metadata.         *)
(***************************************************************************)
\* the dict d with its pairs in the order perm
Reordered(d, perm) == [i \in 1..Len(d) |-> d[perm[i]]]

\* the package with its metadata built in the order perm
WithMetadataOrder(d, perm) ==
    [i \in 1..Len(d) |->
        IF d[i][1] \in NestedKeys THEN <<d[i][1], Reordered(d[i][2], perm)>> ELSE d[i]]

TopOrders == { <<1, 2, 3, 4, 5, 6, 7>>, <<7, 6, 5, 4, 3, 2, 1>> }

MetadataOrders == { <<1, 2, 3>>, <<3, 2, 1>>, <<2, 3, 1>> }

HashSymbols == {"BTC", "ETH"}

HashAnalyses ==
    PrimaryAnalyses
    \cup { <<"\n", "#", " ", "Report", "\n", "\"", "BUY", "\"", " ", "\\", "\n">> }

HashPackages ==
    { Reordered(WithMetadataOrder(AnalysisPackage(sym, tf, a), mo), to) :
        sym \in HashSymbols, tf \in Timeframes, a \in HashAnalyses,
        mo \in MetadataOrders, to \in TopOrders }

InitHash ==
    /\ pkg_a \in HashPackages
    /\ pkg_b \in HashPackages
    /\ hash_a = <<>>
    /\ hash_b = <<>>
    /\ text = <<>>
    /\ score = <<>>
    /\ consulted = {}
    /\ package = <<>>
    /\ report = <<>>
    /\ ProtocolIdle
    /\ DemoOff
    /\ RaceIdle
    /\ hashSeed = [sym \in Symbols |-> 0]

\* submit_work_for_validation: sha256(json.dumps(..).encode()).digest(), .hex()
SubmitHash(analysis_package) == Hex(DataHash(analysis_package))

\* a version that encodes without sort_keys
DemoHashUnsorted(analysis_package) ==
    Hex(sha256(CanonicalJsonUnsorted(analysis_package)))

\* demonstrate_validation: sha256(json.dumps(..).encode()).hexdigest()
DemoHash(analysis_package) == Hex(sha256(canonical_json(analysis_package)))

\* the producer hashes pkg_a
HashFirstBySubmit ==
    /\ hash_a = <<>>
    /\ hash_a' = Append(hash_a, SubmitHash(pkg_a))
    /\ UNCHANGED <<pkg_a, pkg_b, hash_b, scoreVars, fallbackVars, protocolVars,
                   demoVars, raceVars>>

\* the demonstration hashes pkg_a once more, for the validator
HashFirstByDemo ==
    /\ Len(hash_a) = 1
    /\ hash_a' = Append(hash_a, DemoHash(pkg_a))
    /\ UNCHANGED <<pkg_a, pkg_b, hash_b, scoreVars, fallbackVars, protocolVars,
                   demoVars, raceVars>>

\* the producer hashes pkg_b
HashSecond ==
    /\ hash_b = <<>>
    /\ hash_b' = <<SubmitHash(pkg_b)>>
    /\ UNCHANGED <<pkg_a, pkg_b, hash_a, scoreVars, fallbackVars, protocolVars,
                   demoVars, raceVars>>

NextHash == HashFirstBySubmit \/ HashFirstByDemo \/ HashSecond

SpecHash == InitHash /\ [][NextHash]_vars

(***************************************************************************)
(* SpecRace: two calls of _store_analysis_package or                       *)
(* _store_validation_package and one of _load_analysis_package, in         *)
(* separate processes over the same directories.  A file is the sequence   *)
(* of its bytes, kept as runs <<directory, hash, text, from, len>>: len     *)
(* bytes of a text from its offset `from` on.  open(.., 'w') creates or    *)
(* empties the file; json.dump hands the text to the buffered file, which  *)
(* writes it in blocks, each write() replacing as many bytes as it writes  *)
(* at the writer's own offset, the last block on close().  The reader      *)
(* opens the file and reads to its end, one read() at a time.              *)
(***************************************************************************)
Writers == {"w1", "w2"}

RaceHashes == {"H1", "H2"}

\* what a writer has to write: the directory, the hash that names the file,
\* and which text: the bytes of a package are given by its hash, two
\* validation records for one hash may differ in their report
WriteJobs ==
    { <<"data", h, "package">> : h \in RaceHashes }
    \cup { <<"validations", h, r>> : h \in RaceHashes, r \in {"short", "long", "longer"} }

\* f"data/{data_hash}.json", f"validations/{data_hash}.json"
PathOf(job) == <<job[1], job[2]>>

\* the lengths of the write() calls the text of a job is written in.  A text
\* that fits the buffer of 8192 bytes is written in one block, on close();
\* the buffer of a longer one is flushed before: after the report (a report
\* of 8000 characters: the first block is longer than the short record) or
\* before it (a report of 8060 characters: the first block ends where the
\* records begin to differ)
BlockLens(job) ==
    CASE job[3] = "short" -> <<255>>
      [] job[3] = "long" -> <<8185, 58>>
      [] job[3] = "longer" -> <<161, 8142>>
      [] job[3] = "package" /\ job[2] = "H1" -> <<8179, 80>>
      [] OTHER -> <<8192, 1>>

RECURSIVE SumLens(_, _)
\* the bytes of the first n blocks
SumLens(lens, n) == IF n = 0 THEN 0 ELSE SumLens(lens, n - 1) + lens[n]

\* zero bytes: what a write past the end of a file leaves in between
Hole(len) == <<"", "", "", 0, len>>

\* the run of len bytes after the first n bytes of run s
Rest(s, n) == <<s[1], s[2], s[3], IF s[1] = "" THEN 0 ELSE s[4] + n, s[5] - n>>

RECURSIVE Size(_)
\* the number of bytes of a sequence of runs
Size(runs) == IF runs = <<>> THEN 0 ELSE Head(runs)[5] + Size(Tail(runs))

RECURSIVE Take(_, _)
\* the first n bytes of a sequence of runs, fewer when it has fewer
Take(runs, n) ==
    IF n <= 0 \/ runs = <<>> THEN <<>>
    ELSE LET s == Head(runs)
         IN  IF s[5] <= n THEN <<s>> \o Take(Tail(runs), n - s[5])
             ELSE << <<s[1], s[2], s[3], s[4], n>> >>

RECURSIVE Drop(_, _)
\* what follows the first n bytes of a sequence of runs
Drop(runs, n) ==
    IF runs = <<>> THEN <<>>
    ELSE IF n <= 0 THEN runs
    ELSE LET s == Head(runs)
         IN  IF s[5] <= n THEN Drop(Tail(runs), n - s[5])
             ELSE <<Rest(s, n)>> \o Tail(runs)

RECURSIVE Norm(_)
\* the same bytes, a run that continues the one before it joined to it
Norm(runs) ==
    IF Len(runs) <= 1 THEN runs
    ELSE LET a == Head(runs)
             rest == Norm(Tail(runs))
             b == Head(rest)
         IN  IF a[1] = b[1] /\ a[2] = b[2] /\ a[3] = b[3]
                /\ (a[1] = "" \/ a[4] + a[5] = b[4])
             THEN << <<a[1], a[2], a[3], a[4], a[5] + b[5]>> >> \o Tail(rest)
             ELSE <<a>> \o rest

\* the bytes the validation records of one hash have in common: the text up
\* to the report
RecordHead == 161

\* the bytes from offset `from` up to offset `to` of the json text of a job
TextBytes(job, from, to) ==
    LET head == IF job[1] = "validations" THEN RecordHead ELSE 0
        upto == IF to < head THEN to ELSE head
    IN  (IF from < upto THEN << <<job[1], job[2], "record", from, upto - from>> >>
         ELSE <<>>)
        \o (IF to > head /\ to > from
            THEN LET a == IF from > head THEN from ELSE head
                 IN  << <<job[1], job[2], job[3], a, to - a>> >>
            ELSE <<>>)

\* the whole json text of a job
WholeFile(job) == TextBytes(job, 0, SumLens(BlockLens(job), Len(BlockLens(job))))

\* block b of the json text of a job
Block(job, b) ==
    TextBytes(job, SumLens(BlockLens(job), b - 1), SumLens(BlockLens(job), b))

\* the file after a write() of the bytes b at offset pos
WriteAt(file, pos, b) ==
    Norm(Take(file, pos)
         \o (IF pos > Size(file) THEN <<Hole(pos - Size(file))>> ELSE <<>>)
         \o b
         \o Drop(file, pos + Size(b)))

InitRace ==
    /\ r_writers \in [Writers -> { [job |-> j, pc |-> "ready", pos |-> 0] : j \in WriteJobs }]
    /\ r_files \in { <<>>,
                      [p \in {<<"data", "H1">>} |-> WholeFile(<<"data", "H1", "package">>)] }
    /\ r_reader = [pc |-> "ready", h |-> "", bufsize |-> 0, buf |-> <<>>]
    /\ r_read = <<"none">>
    /\ text = <<>>
    /\ score = <<>>
    /\ consulted = {}
    /\ package = <<>>
    /\ report = <<>>
    /\ HashIdle
    /\ ProtocolIdle
    /\ DemoOff
    /\ hashSeed = [sym \in Symbols |-> 0]

RaceFrame ==
    UNCHANGED <<scoreVars, fallbackVars, hashVars, protocolVars, demoVars>>

\* open(path, 'w'): the file is created, or emptied when it is there
WriterOpen(w) ==
    /\ r_writers[w].pc = "ready"
    /\ r_files' = [p \in DOMAIN r_files \cup {PathOf(r_writers[w].job)} |->
                     IF p = PathOf(r_writers[w].job) THEN <<>> ELSE r_files[p]]
    /\ r_writers' = [r_writers EXCEPT ![w].pc = "open"]
    /\ UNCHANGED <<r_reader, r_read>>
    /\ RaceFrame

\* the write() of the block after the pos blocks written, at the writer's
\* offset
WriteBlock(w) ==
    [r_files EXCEPT ![PathOf(r_writers[w].job)] =
        WriteAt(@, SumLens(BlockLens(r_writers[w].job), r_writers[w].pos),
                Block(r_writers[w].job, r_writers[w].pos + 1))]

\* json.dump(.., f, indent=2): the buffer is full and a block reaches the file
WriterWrite(w) ==
    /\ r_writers[w].pc = "open"
    /\ r_writers[w].pos < Len(BlockLens(r_writers[w].job)) - 1
    /\ r_files' = WriteBlock(w)
    /\ r_writers' = [r_writers EXCEPT ![w].pos = @ + 1]
    /\ UNCHANGED <<r_reader, r_read>>
    /\ RaceFrame

\* the with statement closes the file: the rest of the text is written
WriterClose(w) ==
    /\ r_writers[w].pc = "open"
    /\ r_writers[w].pos = Len(BlockLens(r_writers[w].job)) - 1
    /\ r_files' = WriteBlock(w)
    /\ r_writers' = [r_writers EXCEPT ![w].pc = "closed", ![w].pos = @ + 1]
    /\ UNCHANGED <<r_reader, r_read>>
    /\ RaceFrame

\* json.load of the text read: the package when the text is whole,
\* JSONDecodeError otherwise
json_load_file(buf, h) ==
    IF buf = WholeFile(<<"data", h, "package">>) THEN <<"package", h>>
    ELSE <<"JSONDecodeError">>

\* _load_analysis_package(h), open(path, 'r'): FileNotFoundError is caught
\* and gives None, any other exception leaves the method
ReaderOpen(h) ==
    /\ r_reader.pc = "ready"
    /\ IF <<"data", h>> \in DOMAIN r_files
       THEN /\ r_reader' = [r_reader EXCEPT !.pc = "open", !.h = h]
            /\ UNCHANGED r_read
       ELSE /\ r_reader' = [r_reader EXCEPT !.pc = "done", !.h = h]
            /\ r_read' = <<"NotFound">>
    /\ UNCHANGED <<r_files, r_writers>>
    /\ RaceFrame

\* f.read() reads to the end of the file: it asks for the size of the file
\* and makes room for one byte more, for 8192 bytes when the file is empty
ReaderStat ==
    /\ r_reader.pc = "open"
    /\ LET size == Size(r_files[<<"data", r_reader.h>>])
       IN  r_reader' = [r_reader EXCEPT !.pc = "reading",
                                         !.bufsize = IF size > 0 THEN size + 1 ELSE 8192]
    /\ UNCHANGED <<r_files, r_writers, r_read>>
    /\ RaceFrame

\* the room for the text once it is full: an eighth more above 65536 bytes,
\* 256 bytes and as much again below, and 8192 bytes more at least
new_buffersize(currentsize) ==
    currentsize + Max(IF currentsize > 65536 THEN currentsize \div 8
                      ELSE 256 + currentsize,
                      8192)

\* one read() at the reader's offset for the room that is left; a read()
\* that gets nothing ends f.read(), and json.load parses what was read
ReaderRead ==
    /\ r_reader.pc = "reading"
    /\ LET file == r_files[<<"data", r_reader.h>>]
           have == Size(r_reader.buf)
           room == IF have >= r_reader.bufsize THEN new_buffersize(have)
                   ELSE r_reader.bufsize
           got == Take(Drop(file, have), room - have)
       IN  IF got = <<>>
           THEN /\ r_reader' = [r_reader EXCEPT !.pc = "done"]
                /\ r_read' = json_load_file(r_reader.buf, r_reader.h)
           ELSE /\ r_reader' = [r_reader EXCEPT !.buf = Norm(@ \o got),
                                                 !.bufsize = room]
                /\ UNCHANGED r_read
    /\ UNCHANGED <<r_files, r_writers>>
    /\ RaceFrame

NextRace ==
    \/ \E w \in Writers : WriterOpen(w)
    \/ \E w \in Writers : WriterWrite(w)
    \/ \E w \in Writers : WriterClose(w)
    \/ \E h \in RaceHashes : ReaderOpen(h)
    \/ ReaderStat
    \/ ReaderRead

SpecRace == InitRace /\ [][NextRace]_vars

(***************************************************************************)
(* SpecDemo: main() of the demonstration drives one exchange, step by      *)
(* step; every function of the demonstration turns an exception into a     *)
(* falsy result, on which main() returns 1.                                *)
(***************************************************************************)
\* the steps of an exchange, in their order
ExchangeSteps ==
    <<"Built", "Addressed", "Submitted", "Retrieved", "Validated",
      "ScoreSubmitted", "FeedbackAuthorized">>

\* what the validation crew may return in the demonstration: a text that
\* gives the score 0 besides the others
DemoValidationOutcomes ==
    ValidationOutcomes \cup { Words(<<"Final", "score">>) \o <<":", " ", "0">> }

DemoFrame == UNCHANGED <<scoreVars, fallbackVars, hashVars, raceVars>>

\* main() returns code, after the step named
Return(code, after) ==
    /\ d_pc' = "exit"
    /\ d_exit' = <<code, after>>
    /\ UNCHANGED d_trace

\* main() goes on to the step at pc, the steps done completed
GoOn(pc, done) ==
    /\ d_pc' = pc
    /\ d_trace' = d_trace \o done
    /\ UNCHANGED d_exit

InitDemo ==
    /\ PureIdle
    /\ ProtocolIdle
    /\ RaceIdle
    /\ d_pc = "start"
    /\ d_trace = <<>>
    /\ d_exit = <<>>
    /\ hashSeed \in [Symbols -> {0, 1}]

\* check_prerequisites, deploy_contracts, initialize_agents, register_agents
DemoSetup(ok) ==
    /\ d_pc = "start"
    /\ IF ok THEN GoOn("analysis", <<>>) ELSE Return(1, "setup")
    /\ UNCHANGED protocolVars
    /\ DemoFrame

\* demonstrate_market_analysis: alice.perform_market_analysis("BTC", "1d")
DemoAnalysis(outcome) ==
    /\ d_pc = "analysis"
    /\ PerformMarketAnalysis("BTC", <<"1", "d">>, outcome, NoRaise)
    /\ GoOn("submit", <<"Built">>)
    /\ DemoFrame

\* perform_market_analysis raises (the crew cannot be built, or the read of
\* the block fails): the except of demonstrate_market_analysis returns None
DemoAnalysisRaises(outcome, raises) ==
    /\ d_pc = "analysis"
    /\ PerformMarketAnalysis("BTC", <<"1", "d">>, outcome, raises)
    /\ Return(1, "analysis")
    /\ DemoFrame

\* alice.submit_work_for_validation(analysis_package, bob_id): hash and store
DemoSubmitStore ==
    /\ d_pc = "submit"
    /\ SubmitWorkStore
    /\ GoOn("request", <<"Addressed">>)
    /\ DemoFrame

\* a version that goes on to the validation when the request has failed
DemoSubmitRequestGoesOn(ok) ==
    /\ d_pc = "request"
    /\ SubmitWorkRequest(BobId, ok)
    /\ GoOn("validation", IF ok THEN <<"Submitted">> ELSE <<>>)
    /\ DemoFrame

\* ... and the registry call; its exception makes demonstrate_market_analysis
\* return None
DemoSubmitRequest(ok) ==
    /\ d_pc = "request"
    /\ SubmitWorkRequest(BobId, ok)
    /\ IF ok THEN GoOn("validation", <<"Submitted">>) ELSE Return(1, "analysis")
    /\ DemoFrame

\* while main() waits for the confirmation the files of data/ are taken away
\* from outside
DataFilesLost ==
    /\ d_pc = "validation"
    /\ dataFiles # <<>>
    /\ dataFiles' = <<>>
    /\ UNCHANGED <<validationFiles, registry, hashSeed, serverVars,
                   validatorVars, calls, demoVars>>
    /\ DemoFrame

\* demonstrate_validation: the hash, bob.validate_analysis(data_hash), and
\* the test of validation_package.get("error")
DemoValidate(outcome) ==
    /\ d_pc = "validation"
    /\ ValidateAnalysis(DemoHash(s_pkg), outcome, NoRaise)
    /\ IF IsValidationPackage(v_out')
       THEN GoOn("respond", <<"Retrieved", "Validated">>)
       ELSE Return(1, "validation")
    /\ DemoFrame

\* bob.validate_analysis raises after it has loaded the package (the crew
\* cannot be built, or the read of the block fails, outside its try): the
\* except of demonstrate_validation returns None
DemoValidateRaises(outcome, raises) ==
    /\ d_pc = "validation"
    /\ ValidateAnalysis(DemoHash(s_pkg), outcome, raises)
    /\ HasRaised(v_out')
    /\ d_pc' = "exit"
    /\ d_exit' = <<1, "validation">>
    /\ d_trace' = d_trace \o <<"Retrieved">>
    /\ DemoFrame

\* bob.submit_validation_response(validation_package): the record is filed
DemoRespondStore ==
    /\ d_pc = "respond"
    /\ SubmitResponseStore
    /\ GoOn("send", <<>>)
    /\ DemoFrame

\* a version that ends the run after a score below 50
DemoRespondSendGated(ok) ==
    /\ d_pc = "send"
    /\ SubmitResponseSend(ok)
    /\ IF ok
       THEN IF v_out.validation_score >= 50
            THEN GoOn("feedback", <<"ScoreSubmitted">>)
            ELSE /\ d_pc' = "exit"
                 /\ d_exit' = <<1, "validation">>
                 /\ d_trace' = d_trace \o <<"ScoreSubmitted">>
       ELSE Return(1, "validation")
    /\ DemoFrame

\* ... and the registry call; its exception makes demonstrate_validation
\* return None
DemoRespondSend(ok) ==
    /\ d_pc = "send"
    /\ SubmitResponseSend(ok)
    /\ IF ok THEN GoOn("feedback", <<"ScoreSubmitted">>) ELSE Return(1, "validation")
    /\ DemoFrame

\* demonstrate_feedback: alice.authorize_feedback(charlie_id)
DemoFeedback(ok) ==
    /\ d_pc = "feedback"
    /\ authorize_feedback(AliceId, CharlieId)
    /\ IF ok THEN GoOn("audit", <<"FeedbackAuthorized">>) ELSE Return(1, "feedback")
    /\ UNCHANGED <<storeVars, hashSeed, serverVars, validatorVars, calls>>
    /\ DemoFrame

\* display_audit_trail, outside every try, reads the chain id; then main()
\* returns 0. When the read raises, main() raises and returns nothing
DemoAudit(ok) ==
    /\ d_pc = "audit"
    /\ IF ok THEN Return(0, "audit")
       ELSE /\ d_pc' = "raised"
            /\ UNCHANGED <<d_trace, d_exit>>
    /\ UNCHANGED protocolVars
    /\ DemoFrame

NextDemo ==
    \/ \E ok \in BOOLEAN : DemoSetup(ok)
    \/ \E o \in AnalysisOutcomes : DemoAnalysis(o)
    \/ \E o \in AnalysisOutcomes, at \in RaisePoints : DemoAnalysisRaises(o, at)
    \/ DemoSubmitStore
    \/ \E ok \in BOOLEAN : DemoSubmitRequest(ok)
    \/ DataFilesLost
    \/ \E o \in DemoValidationOutcomes : DemoValidate(o)
    \/ \E o \in DemoValidationOutcomes, at \in RaisePoints : DemoValidateRaises(o, at)
    \/ DemoRespondStore
    \/ \E ok \in BOOLEAN : DemoRespondSend(ok)
    \/ \E ok \in BOOLEAN : DemoFeedback(ok)
    \/ \E ok \in BOOLEAN : DemoAudit(ok)

\* main() runs statement after statement: a step that can be taken is taken
SpecDemo == InitDemo /\ [][NextDemo]_vars /\ WF_vars(NextDemo)

(***************************************************************************)
(* SpecCallers: the agents under either caller, main() or another one.     *)
(***************************************************************************)
InitCallers == Init \/ InitDemo

NextCallers == Next \/ NextDemo

SpecCallers == InitCallers /\ [][NextCallers]_vars

(***************************************************************************)
(* SpecExchange: the two agents over several symbols and timeframes, from  *)
(* the analysis to the validation record.                                  *)
(***************************************************************************)
\* perform_market_analysis(symbol, timeframe) takes any symbol; "BTC" has
\* support and resistance levels of its own
ExchangeSymbols == {"BTC", "ETH"}

\* timeframe: str = "1d"
ExchangeTimeframes == { <<"1", "d">>, <<"4", "h">> }

InitExchange ==
    /\ PureIdle
    /\ ProtocolIdle
    /\ DemoOff
    /\ RaceIdle
    /\ hashSeed \in [ExchangeSymbols -> {0, 1}]

NextExchange ==
    \/ \E sym \in ExchangeSymbols, tf \in ExchangeTimeframes, o \in AnalysisOutcomes,
          at \in RaisePoints \cup {NoRaise} :
          PerformMarketAnalysis(sym, tf, o, at) /\ FreeCaller
    \/ SubmitWorkStore /\ FreeCaller
    \/ \E ok \in BOOLEAN :
          SubmitWorkRequest(BobId, ok) /\ FreeCaller
    \/ \E h \in HashesAround, o \in ValidationOutcomes,
          at \in RaisePoints \cup {NoRaise} :
          ValidateAnalysis(h, o, at) /\ FreeCaller

SpecExchange == InitExchange /\ [][NextExchange]_vars

(***************************************************************************)
(* The pattern classes as the specification names them, in its priority    *)
(* order, and what a text holds of each.                                   *)
(***************************************************************************)
ClassScore == PrefixPattern("score")

ClassOutOf100 == SuffixPattern(<<"/", "1", "0", "0">>)

ClassPercent == SuffixPattern(<<"%">>)

ClassOverall == PrefixPattern("overall")

ClassOrder == <<ClassScore, ClassOutOf100, ClassPercent, ClassOverall>>

RECURSIVE MatchStarts(_, _, _)
\* the positions of s at which the occurrences of class p start, the text
\* being read left to right and an occurrence ending before the next starts
MatchStarts(p, s, i) ==
    IF i > Len(s) THEN {}
    ELSE IF MatchAt(p, s, i).ok
         THEN {i} \cup MatchStarts(p, s, MatchAt(p, s, i).end + 1)
         ELSE MatchStarts(p, s, i + 1)

HasClass(p, s) == \E i \in 1..Len(s) : MatchAt(p, s, i).ok

\* the digits of the occurrence of class p that starts last in s
LastOccurrence(p, s) ==
    LET starts == MatchStarts(p, s, 1)
        last == CHOOSE i \in starts : \A j \in starts : j <= i
    IN  MatchAt(p, s, last).cap

\* the digits hold the run of 4301 nines: more digits than int() converts
TooLong(ds) == \E i \in 1..Len(ds) : ds[i] = LongRun

\* the number the digits spell is above 100
Above100(ds) == TooLong(ds) \/ ToInt(ds) > 100

\* what an occurrence gives when it decides: its number, cut to 100, and 70
\* for digits int() does not convert
Decided(ds) == IF TooLong(ds) THEN 70 ELSE Min(100, ToInt(ds))

\* the class that decides text s: the first of ClassOrder with an occurrence
WinningClass(s) ==
    LET hit == { k \in 1..Len(ClassOrder) : HasClass(ClassOrder[k], s) }
    IN  IF hit = {} THEN 0 ELSE CHOOSE k \in hit : \A j \in hit : k <= j

Returned == score # <<>>

\* C6: the extractor returns an integer in 0..100 for every text; a matched
\* number above 100 gives 100, and the empty text gives 70.
C6_ScoreBounds ==
    Returned =>
        /\ score[1] \in 0..100
        /\ text = <<>> => score[1] = 70
        /\ LET k == WinningClass(Lower(text))
           IN  (k # 0 /\ Above100(LastOccurrence(ClassOrder[k], Lower(text))))
                   => score[1] = 100

\* the part of C6 that stands: a score in 0..100 for every text, 70 for the
\* empty one, and 100 for a number above 100 that int() converts
ScoreBoundsWithinLimit ==
    Returned =>
        /\ score[1] \in 0..100
        /\ text = <<>> => score[1] = 70
        /\ LET k == WinningClass(Lower(text))
               last == LastOccurrence(ClassOrder[k], Lower(text))
           IN  (k # 0 /\ ~TooLong(last) /\ ToInt(last) > 100) => score[1] = 100

\* "score: 409" is clamped to 100
C6_Witness ==
    /\ text = <<"score", ":", " ", "4", "0", "9">>
    /\ score = <<100>>

\* C7: the classes are consulted in the order "score: N", "N/100", "N%",
\* "overall: N"; the first class with an occurrence decides the result and
\* no class after it is consulted.
C7_ClassPriority ==
    Returned =>
        \A k \in 1..Len(ClassOrder) :
            ( /\ HasClass(ClassOrder[k], Lower(text))
              /\ \A j \in 1..(k - 1) : ~HasClass(ClassOrder[j], Lower(text)) )
            => /\ score[1] = Decided(LastOccurrence(ClassOrder[k], Lower(text)))
               /\ consulted = { ClassOrder[j] : j \in 1..k }

\* "85% score: 40" and "score: 40 85%" both give 40
C7_Witness ==
    /\ text \in { <<"8", "5", "%", "score", ":", " ", "4", "0">>,
                  <<"score", ":", " ", "4", "0", " ", "8", "5", "%">> }
    /\ score = <<40>>
    /\ consulted = {ClassScore}

\* C8: within the deciding class the occurrence that starts last in the text
\* gives the result.
C8_LastMatchWins ==
    Returned =>
        LET k == WinningClass(Lower(text))
        IN  k # 0 =>
              score[1] = Decided(LastOccurrence(ClassOrder[k], Lower(text)))

\* "score: 40 Score: 90" gives 90
C8_Witness ==
    /\ text = <<"score", ":", " ", "4", "0", " ", "Score", ":", " ", "9", "0">>
    /\ score = <<90>>

\* C9: without a numeric occurrence the keyword ladder decides, in the order
\* excellent/outstanding 95, good/solid 85, adequate/acceptable 75,
\* poor/inadequate 45, the first rung with a keyword in the text winning, and
\* 70 when no rung has one.
C9_SentimentLadder ==
    (Returned /\ WinningClass(Lower(text)) = 0) =>
        LET has(kw) == \E i \in 1..Len(text) : WordContains(LowerTok(text[i]), kw)
            r1 == has("excellent") \/ has("outstanding")
            r2 == has("good") \/ has("solid")
            r3 == has("adequate") \/ has("acceptable")
            r4 == has("poor") \/ has("inadequate")
        IN  /\ r1 => score[1] = 95
            /\ (~r1 /\ r2) => score[1] = 85
            /\ (~r1 /\ ~r2 /\ r3) => score[1] = 75
            /\ (~r1 /\ ~r2 /\ ~r3 /\ r4) => score[1] = 45
            /\ (~r1 /\ ~r2 /\ ~r3 /\ ~r4) => score[1] = 70

\* "poor good": the rung of "good" is tested before the rung of "poor"
C9_Witness ==
    /\ text = <<"poor", " ", "good">>
    /\ score = <<85>>

(***************************************************************************)
(* The exchange.                                                           *)
(***************************************************************************)
RequestsMade == { c \in registry : c.fn = "requestValidation" }

\* C1: whenever requestValidation(validatorId, H) has been invoked, the
\* package store holds an entry under H: the package is written before the
\* registry is called.
C1_StoredBeforeRequest ==
    \A c \in RequestsMade : Hex(c.hash) \in DOMAIN dataFiles

\* a request has been sent for the producer's package
C1_Witness ==
    /\ s_pc = "submitted"
    /\ \E c \in RequestsMade : c.hash = DataHash(s_pkg) /\ c.agent = BobId

\* C2: when the registry call of submit_work_for_validation fails, the caller
\* gets the failure and the package written under H is still in the store,
\* as it was written.
C2_FailureKeepsPackage ==
    s_pc = "failed" =>
        /\ s_out = "RegistryError"
        /\ Hex(DataHash(s_pkg)) \in DOMAIN dataFiles
        /\ dataFiles[Hex(DataHash(s_pkg))] = json_dump(s_pkg)

\* the registry call has failed after the package was stored
C2_Witness ==
    /\ s_pc = "failed"
    /\ s_out = "RegistryError"
    /\ \E c \in RequestsMade : c.hash = DataHash(s_pkg)

\* C3: a call of validate_analysis with a hash that has no entry in the
\* package store returns the "package not found" report, invokes neither the
\* engine nor the fallback validator nor the extractor, and leaves both stores
\* and the registry as they were.
C3_NotFoundReported ==
    [][ ( /\ calls'.validation = calls.validation + 1
          /\ v_hash' \notin DOMAIN dataFiles )
        => /\ v_out' = NotFoundReport
           /\ v_calls' = {"load"}
           /\ UNCHANGED <<dataFiles, validationFiles, registry>> ]_vars

\* validate_analysis has answered "not found" for the hash of a package that
\* is not stored yet
C3_Witness ==
    /\ v_pc = "validated"
    /\ v_hash \notin DOMAIN dataFiles
    /\ v_out = NotFoundReport

\* validate_analysis got past the test of the package it loaded: the package
\* was retrieved
PackageRetrieved == v_calls # {} /\ v_out # NotFoundReport

\* a failure of crew.kickoff() is never handed to the caller: the fallback
\* generator's text takes the place of the engine's, on both sides, and a
\* call of validate_analysis that returns for a retrieved package returns a
\* validation record with a score in 0..100
KickoffFailureAbsorbed ==
    /\ (PackageRetrieved /\ ~HasRaised(v_out)) =>
          /\ IsValidationPackage(v_out)
          /\ v_out.validation_score \in 0..100
          /\ "fallback" \in v_calls =>
                v_out.validation_report =
                    create_fallback_validation(v_out.original_analysis)
    /\ s_path = "fallback" =>
          /\ HasKey(s_pkg, "analysis")
          /\ \E sym \in Symbols, tf \in Timeframes :
                Get(s_pkg, "analysis") =
                    create_fallback_analysis(sym, tf, hashSeed[sym])

\* the validation engine failed on the package the analysis engine had
\* failed on, and a scored record came back
KickoffFailureSeen ==
    /\ v_pc = "validated"
    /\ "fallback" \in v_calls
    /\ IsValidationPackage(v_out)
    /\ v_out.validation_score \in 0..100
    /\ s_path = "fallback"
    /\ v_out.original_analysis = s_pkg

\* the validation engine failed, the fallback validation was scored, and the
\* read of the block raised: the caller has an exception and no record
RaisedAfterFallback ==
    /\ v_pc = "raised"
    /\ v_out = [raised |-> "get_block"]
    /\ v_calls = {"load", "engine", "extract", "fallback"}
    /\ v_hash \in DOMAIN dataFiles

\* C4: a failure of the primary engine is never handed to the caller: the
\* fallback generator's text takes the place of the engine's, and once a
\* package was retrieved validate_analysis yields a validation record with
\* a score in 0..100.
C4_EngineFailureAbsorbed ==
    /\ PackageRetrieved =>
          /\ IsValidationPackage(v_out)
          /\ v_out.validation_score \in 0..100
          /\ "fallback" \in v_calls =>
                v_out.validation_report =
                    create_fallback_validation(v_out.original_analysis)
    /\ s_path = "fallback" =>
          /\ HasKey(s_pkg, "analysis")
          /\ \E sym \in Symbols, tf \in Timeframes :
                Get(s_pkg, "analysis") =
                    create_fallback_analysis(sym, tf, hashSeed[sym])

\* C5: the metadata of a record tells whether the fallback generator wrote
\* its report: two validation records, or two work packages, made on
\* different paths differ in their metadata.
C5_MetadataRecordsPath ==
    [][ /\ ( /\ IsValidationPackage(v_out)
             /\ IsValidationPackage(v_out')
             /\ ("fallback" \in v_calls) # ("fallback" \in v_calls') )
           => v_out'.metadata # v_out.metadata
        /\ ( /\ s_path \in {"primary", "fallback"}
             /\ s_path' \in {"primary", "fallback"}
             /\ s_path' # s_path )
           => Get(s_pkg', "metadata") # Get(s_pkg, "metadata") ]_vars

(***************************************************************************)
(* The fallback validator.                                                 *)
(***************************************************************************)
\* the number after "Completeness Score:", the first "score: N" of the report
ReportedCompleteness == ToInt(FindAll(ClassScore, Lower(report[1]))[1])

MissingRequired ==
    {"symbol", "analysis", "timestamp", "agent_id"} \ Keys(package)

\* C10: the completeness score of the fallback validation is 100 minus 25
\* for each required field the package lacks, and never below 0.
C10_Completeness ==
    report # <<>> =>
        /\ ReportedCompleteness = 100 - 25 * Cardinality(MissingRequired)
        /\ ReportedCompleteness >= 0

\* only the timestamp is missing: 75
C10_Witness ==
    /\ report # <<>>
    /\ MissingRequired = {"timestamp"}
    /\ ReportedCompleteness = 75

\* the numbers after "Completeness Score:", "Methodology Score:" and "Overall
\* Validation Score:", in the order of the report
ReportedScores ==
    LET ms == FindAll(ClassScore, Lower(report[1]))
    IN  [i \in 1..Len(ms) |-> ToInt(ms[i])]

\* the result payload of the package, "" when it has none
Payload == IF "analysis" \in Keys(package) THEN Get(package, "analysis") ELSE <<>>

\* the keywords some word of the payload holds, whatever its case
KeywordsFound ==
    { k \in {"trend", "support", "resistance", "recommendation", "risk"} :
        \E i \in 1..Len(Payload) : WordContains(LowerTok(Payload[i]), k) }

\* C11: the report of the fallback validation gives as overall score the mean
\* of the completeness and the methodology score, cut to an integer; the
\* methodology score is 100 times the number of the five keywords found in
\* the payload, whatever their case, divided by 5; all three are in 0..100.
C11_OverallIsMean ==
    report # <<>> =>
        LET reported == ReportedScores
        IN  /\ Len(reported) = 3
            /\ reported[2] = (100 * Cardinality(KeywordsFound)) \div 5
            /\ reported[3] = (reported[1] + reported[2]) \div 2
            /\ \A i \in 1..3 : reported[i] \in 0..100

\* one field missing and three keywords found: 75, 60 and the mean 67.5 cut to 67
C11_Witness ==
    /\ report # <<>>
    /\ Cardinality(MissingRequired) = 1
    /\ Cardinality(KeywordsFound) = 3
    /\ ReportedScores = <<75, 60, 67>>

\* the overall score the package earns: from its fields and its keywords
ExpectedOverall ==
    ((100 - 25 * Cardinality(MissingRequired)) + 20 * Cardinality(KeywordsFound)) \div 2

\* C12: the extractor applied to the report of the fallback validation
\* returns the overall score of that report, for every package; a package
\* with all four required fields and all five keywords gets 100.
C12_ExtractIsOverall ==
    (report # <<>> /\ Returned) =>
        /\ score[1] = ExpectedOverall
        /\ score[1] = ReportedScores[3]
        /\ (MissingRequired = {} /\ Cardinality(KeywordsFound) = 5) => score[1] = 100

\* the complete package: 100
C12_Witness ==
    /\ report # <<>>
    /\ MissingRequired = {}
    /\ Cardinality(KeywordsFound) = 5
    /\ score = <<100>>

(***************************************************************************)
(* The content hash.                                                       *)
(***************************************************************************)
\* the same keys with the same values, the metadata compared the same way
SameContent(p, q) ==
    /\ Keys(p) = Keys(q)
    /\ \A k \in Keys(p) :
          IF k \in NestedKeys
          THEN /\ Keys(Get(p, k)) = Keys(Get(q, k))
               /\ \A m \in Keys(Get(p, k)) : Get(Get(p, k), m) = Get(Get(q, k), m)
          ELSE Get(p, k) = Get(q, k)

\* C13: the content hash depends on the content of the package only: two
\* packages with the same keys and values have the same hash, whatever the
\* order their top-level and metadata mappings were built in, and a package
\* hashed twice gets the same hash twice.
C13_HashOfContentOnly ==
    /\ \A i, j \in 1..Len(hash_a) : hash_a[i] = hash_a[j]
    /\ (hash_a # <<>> /\ hash_b # <<>> /\ SameContent(pkg_a, pkg_b))
          => hash_a[1] = hash_b[1]

\* two packages of the same content, built in different orders at the top and
\* in the metadata, the first hashed twice: one hash
C13_Witness ==
    /\ Len(hash_a) = 2
    /\ hash_b # <<>>
    /\ SameContent(pkg_a, pkg_b)
    /\ pkg_a[1][1] # pkg_b[1][1]
    /\ Keys(pkg_a) = Keys(pkg_b)
    /\ \E i \in 1..3 : Get(pkg_a, "metadata")[i][1] # Get(pkg_b, "metadata")[i][1]
    /\ hash_a[1] = hash_b[1]
    /\ hash_a[2] = hash_b[1]

(***************************************************************************)
(* The two file stores.                                                    *)
(***************************************************************************)
\* the hash submit_work_for_validation files the producer's package under
PackageKey == Hex(DataHash(s_pkg))

\* the producer's package has been written by the call under way or just over
PackagePut == s_pc \in {"stored", "submitted", "failed"}

\* C14: a package put under H is what a get of H returns, also after other
\* packages were put under other hashes; a get of a hash nothing was put
\* under answers that there is no such package.
C14_StoreRoundTrip ==
    /\ PackagePut => load_analysis_package(dataFiles, PackageKey) = s_pkg
    /\ \A h \in DOMAIN dataFiles :
          Hex(DataHash(load_analysis_package(dataFiles, h))) = h
    /\ \A h \in HashesAround \ DOMAIN dataFiles :
          load_analysis_package(dataFiles, h) = None
    /\ IsValidationPackage(v_out) =>
          v_out.original_analysis = load_analysis_package(dataFiles, v_hash)

\* two packages are stored, the later one with line breaks in its text, and
\* the validator got back the earlier one
C14_Witness ==
    /\ PackagePut
    /\ s_path = "fallback"
    /\ Cardinality(DOMAIN dataFiles) = 2
    /\ load_analysis_package(dataFiles, PackageKey) = s_pkg
    /\ IsValidationPackage(v_out)
    /\ v_hash # PackageKey
    /\ Hex(DataHash(v_out.original_analysis)) = v_hash

\* C15: every file of the package store is named by the hex of the hash of
\* its own bytes: what is stored is the canonical encoding the hash was
\* computed over.
C15_StoredBytesAreHashed ==
    \A h \in DOMAIN dataFiles : h = Hex(sha256(dataFiles[h]))

\* C16: the package files and the validation files are apart: writing a
\* validation record under H leaves the package under H as it is, writing a
\* package under H leaves the validation record under H as it is, and what
\* validate_analysis loads for H is the package, never a validation record.
C16_NamespacesApart ==
    [][ /\ (v_pc = "validated" /\ v_pc' = "stored") => dataFiles' = dataFiles
        /\ validationFiles' # validationFiles => dataFiles' = dataFiles
        /\ (s_pc = "built" /\ s_pc' # s_pc) => validationFiles' = validationFiles
        /\ dataFiles' # dataFiles => validationFiles' = validationFiles
        /\ ( /\ calls'.validation = calls.validation + 1
             /\ IsValidationPackage(v_out') )
           => /\ ~HasKey(v_out'.original_analysis, "validation_score")
              /\ v_out'.original_analysis = json_load(dataFiles[v_hash']) ]_vars

\* a package and a validation record are both filed under H, and the
\* producer has just written the package under H once more
C16_Witness ==
    /\ s_pc = "stored"
    /\ PackageKey \in DOMAIN validationFiles
    /\ PackageKey \in DOMAIN dataFiles
    /\ json_load(dataFiles[PackageKey]) = s_pkg
    /\ validationFiles[PackageKey].data_hash = PackageKey

ResponsesMade == { c \in registry : c.fn = "submitValidationResponse" }

\* the validator's record has been written by the call under way or just over
RecordPut == v_pc \in {"stored", "responded", "failed"}

\* C17: the validation store holds one record per hash: each file is one
\* record, filed under its own hash, and after a hash was validated again
\* the file holds the latest record.
C17_OneRecordPerHash ==
    /\ \A h \in DOMAIN validationFiles :
          /\ IsValidationPackage(validationFiles[h])
          /\ validationFiles[h].data_hash = h
    /\ RecordPut => validationFiles[v_out.data_hash] = v_out

\* a hash was validated twice with different scores: the file holds the
\* second record
C17_Witness ==
    /\ RecordPut
    /\ \E c \in ResponsesMade :
          /\ Hex(c.hash) = v_out.data_hash
          /\ c.score # v_out.validation_score
    /\ validationFiles[v_out.data_hash].validation_score = v_out.validation_score
    /\ Cardinality(DOMAIN validationFiles) = 1

\* C18: the validation record is written under the hash before the registry
\* gets submitValidationResponse(hash, score); when that call fails the
\* caller gets the failure and the record stays as written.
C18_RecordBeforeResponse ==
    /\ \A c \in ResponsesMade :
          /\ Hex(c.hash) \in DOMAIN validationFiles
          /\ validationFiles[Hex(c.hash)].data_hash = Hex(c.hash)
    /\ v_pc = "failed" =>
          /\ v_sent = "RegistryError"
          /\ v_out.data_hash \in DOMAIN validationFiles
          /\ validationFiles[v_out.data_hash] = v_out

\* the registry call of the response has failed after the record was written
C18_Witness ==
    /\ v_pc = "failed"
    /\ v_sent = "RegistryError"
    /\ \E c \in ResponsesMade :
          Hex(c.hash) = v_out.data_hash /\ c.score = v_out.validation_score
    /\ validationFiles[v_out.data_hash] = v_out

\* C19: when the package cannot be encoded, submit_work_for_validation ends
\* with the encoder's error: no file is written and the registry is not
\* called.
C19_EncodingFailureAborts ==
    [][ (s_pc = "built" /\ json_raises(s_pkg) /\ s_pc' # s_pc)
        => /\ s_pc' = "aborted"
           /\ s_out' = "TypeError"
           /\ UNCHANGED <<dataFiles, validationFiles, registry>> ]_vars

\* a package with a value json cannot encode was submitted
C19_Witness ==
    /\ s_pc = "aborted"
    /\ s_out = "TypeError"
    /\ json_raises(s_pkg)
    /\ PackageKey \notin DOMAIN dataFiles

\* C20: submit_work_for_validation called again with the same package gets
\* the same hash and leaves the package store as the first call left it,
\* with one file for the package.
C20_SubmitIdempotent ==
    [][ (s_pc = "built" /\ s_pc' = "stored")
        => /\ PackageKey \in DOMAIN dataFiles => dataFiles' = dataFiles
           /\ Cardinality({ h \in DOMAIN dataFiles' :
                              json_load(dataFiles'[h]) = s_pkg }) = 1
           /\ json_load(dataFiles'[PackageKey]) = s_pkg ]_vars

\* the one package was submitted a second time after the registry call had
\* failed
C20_Witness ==
    /\ s_pc = "stored"
    /\ calls.analysis = 1
    /\ \E c \in RequestsMade : c.hash = DataHash(s_pkg)
    /\ DOMAIN dataFiles = {PackageKey}

\* a step of the validator: of validate_analysis or submit_validation_response
ValidatorStep == v_pc' # v_pc \/ calls'.validation # calls.validation

\* C23: a stored package is never touched by the validator: no step of
\* validate_analysis or submit_validation_response adds, changes or removes a
\* package file, and validate_analysis writes no file at all.
C23_ValidatorLeavesPackages ==
    [][ /\ ValidatorStep => dataFiles' = dataFiles
        /\ calls'.validation # calls.validation
             => UNCHANGED <<dataFiles, validationFiles>> ]_vars

\* the validator has validated a stored package and sent its response; the
\* package file is what it loaded
C23_Witness ==
    /\ v_pc = "responded"
    /\ v_hash \in DOMAIN dataFiles
    /\ v_hash \in DOMAIN validationFiles
    /\ json_load(dataFiles[v_hash]) = v_out.original_analysis

\* C26: a package loaded from the store under H, encoded with sorted keys
\* again and hashed, gives H: the hash the validator's side derives from the
\* package is the key the producer stored it under, and the lookup after a
\* submission that went through finds the package.
C26_ReloadedHashIsKey ==
    /\ \A h \in DOMAIN dataFiles :
          DemoHash(load_analysis_package(dataFiles, h)) = h
    /\ s_pc = "submitted" =>
          /\ DemoHash(s_pkg) = PackageKey
          /\ DemoHash(s_pkg) \in DOMAIN dataFiles
          /\ load_analysis_package(dataFiles, DemoHash(s_pkg)) = s_pkg

\* the submission went through and the validator loaded the package under
\* the hash derived from it
C26_Witness ==
    /\ s_pc = "submitted"
    /\ s_path = "fallback"
    /\ v_hash = DemoHash(s_pkg)
    /\ IsValidationPackage(v_out)
    /\ v_out.original_analysis = s_pkg
    /\ DemoHash(v_out.original_analysis) = v_hash

\* C27: validate_analysis answers "Analysis package not found" exactly when
\* the package store has no file under the hash; every stored package, also
\* one without fields, is loaded and validated.
C27_NotFoundIffAbsent ==
    [][ calls'.validation = calls.validation + 1
        => ((v_out' = NotFoundReport) <=> (v_hash' \notin DOMAIN dataFiles)) ]_vars

\* C29: every file of the validation store under H is a record whose
\* data_hash is H, and the package store has a file under H as well: the
\* package the record was made from.
C29_ValidationKeysArePackageKeys ==
    \A h \in DOMAIN validationFiles :
        /\ IsValidationPackage(validationFiles[h])
        /\ validationFiles[h].data_hash = h
        /\ h \in DOMAIN dataFiles
        /\ validationFiles[h].original_analysis = json_load(dataFiles[h])

\* records are filed for two packages
C29_Witness ==
    /\ Cardinality(DOMAIN validationFiles) = 2
    /\ DOMAIN validationFiles = DOMAIN dataFiles
    /\ \A h \in DOMAIN validationFiles : validationFiles[h].data_hash = h

\* C30: submit_validation_response sends the registry the hash and the
\* validation_score of the record it has just filed; the score of a record
\* of validate_analysis is what the extractor gave for its report, in 0..100.
C30_SentIsFiled ==
    [][ (v_pc = "stored" /\ v_pc' \in {"responded", "failed"})
        => LET sent == RegistryCall("submitValidationResponse", BobId,
                                    FromHex(v_out.data_hash),
                                    v_out.validation_score)
           IN  /\ sent \in registry'
               /\ registry' \ registry \subseteq {sent}
               /\ \A c \in ResponsesMade' \ ResponsesMade :
                     /\ Hex(c.hash) \in DOMAIN validationFiles
                     /\ validationFiles[Hex(c.hash)] = v_out
                     /\ c.score = validationFiles[Hex(c.hash)].validation_score
                     /\ c.score = extract_validation_score(v_out.validation_report)
                     /\ c.score \in 0..100 ]_vars

\* the response for a report that says 150 went out with the score 100 of the
\* filed record
C30_Witness ==
    /\ v_pc = "responded"
    /\ v_out.validation_score = 100
    /\ validationFiles[v_out.data_hash] = v_out
    /\ \E c \in ResponsesMade :
          Hex(c.hash) = v_out.data_hash /\ c.score = 100

(***************************************************************************)
(* The demonstration.                                                      *)
(***************************************************************************)
FeedbackCalls == { c \in registry : c.fn = "authorizeFeedback" }

\* file writes and registry calls there are at most, after n steps of the
\* exchange were completed
EffectsWithin(n) ==
    /\ n < 1 => (s_pkg = <<>> /\ dataFiles = <<>>)
    /\ n < 2 => (dataFiles = <<>> /\ RequestsMade = {})
    /\ n < 3 => (v_pc = "idle" /\ validationFiles = <<>>)
    /\ n < 5 => (validationFiles = <<>> /\ ResponsesMade = {})
    /\ n < 6 => FeedbackCalls = {}

\* C24: the steps of an exchange come in the order Built, Addressed,
\* Submitted, Retrieved, Validated, ScoreSubmitted, FeedbackAuthorized; in
\* the demonstration a step that fails ends the run with exit code 1, and
\* nothing a later step would write or send is written or sent.
C24_StepsInOrder ==
    /\ Len(d_trace) <= Len(ExchangeSteps)
    /\ d_trace = SubSeq(ExchangeSteps, 1, Len(d_trace))
    /\ EffectsWithin(Len(d_trace))
    /\ d_pc = "exit" =>
          /\ d_exit # <<>>
          /\ d_exit[1] \in {0, 1}
          /\ d_exit[1] = 0 <=> d_trace = ExchangeSteps
    /\ d_pc # "exit" => d_exit = <<>>

\* the response of the validator failed at the registry: exit code 1 after
\* the first five steps, and no feedback authorized
C24_Witness ==
    /\ d_exit = <<1, "validation">>
    /\ d_trace = SubSeq(ExchangeSteps, 1, 5)
    /\ v_pc = "failed"
    /\ FeedbackCalls = {}

\* C25: once the score is submitted, authorizeFeedback is called for the
\* client, whatever the score, 0 included.
C25_FeedbackWhateverScore ==
    (Len(d_trace) >= 6) ~> (\E c \in FeedbackCalls : c.agent = CharlieId)

\* feedback was authorized after a score of 0
C25_Witness ==
    /\ Len(d_trace) >= 6
    /\ v_out.validation_score = 0
    /\ \E c \in ResponsesMade : c.score = 0
    /\ \E c \in FeedbackCalls : c.agent = CharlieId

\* C28: no score is ever sent for a package that was not found: handed the
\* "not found" answer, submit_validation_response fails before it files a
\* record or calls the registry, and the demonstration ends on that answer
\* without a response and without authorizing feedback.
C28_NoScoreForNotFound ==
    [][ /\ ( /\ v_pc = "validated" /\ v_out = NotFoundReport
             /\ v_pc' # v_pc /\ calls'.validation = calls.validation )
           => /\ v_pc' = "aborted"
              /\ v_sent' = "KeyError"
              /\ UNCHANGED <<validationFiles, registry>>
        /\ (d_pc # "off" /\ v_out = NotFoundReport)
           => /\ d_pc' = "exit"
              /\ d_exit' = <<1, "validation">>
              /\ UNCHANGED <<validationFiles, registry, validatorVars>>
        /\ \A c \in ResponsesMade' \ ResponsesMade :
              /\ IsValidationPackage(v_out)
              /\ Hex(c.hash) = v_hash ]_vars

\* the "not found" answer was handed to submit_validation_response, which
\* raised; nothing was filed or sent for that hash
C28_Witness ==
    /\ v_pc = "aborted"
    /\ v_sent = "KeyError"
    /\ v_out = NotFoundReport
    /\ v_hash \notin DOMAIN validationFiles
    /\ \A c \in ResponsesMade : Hex(c.hash) # v_hash

(***************************************************************************)
(* The stores under concurrent use.                                        *)
(***************************************************************************)
\* C21: a validator that loads H while a producer writes H gets the answer
\* that there is no such package, or the whole package: never a part of it,
\* and no other error.
C21_ReaderSeesWholeOrNothing ==
    r_read \in {<<"none">>, <<"NotFound">>} \cup { <<"package", h>> : h \in RaceHashes }

\* the writers that have written the file at path p
WritersOf(p) == { w \in Writers : PathOf(r_writers[w].job) = p }

\* C22: when two writers are done, every file written holds the whole text
\* of one of the writes to it, and the files nobody wrote are as they were.
C22_WritersBenign ==
    (\A w \in Writers : r_writers[w].pc = "closed") =>
        \A p \in DOMAIN r_files :
            IF WritersOf(p) = {}
            THEN r_files[p] = WholeFile(<<"data", "H1", "package">>)
            ELSE \E w \in WritersOf(p) : r_files[p] = WholeFile(r_writers[w].job)


(***************************************************************************)
(* The exchange in which both engines fail.                                *)
(***************************************************************************)
\* the package perform_market_analysis builds from the fallback analysis is
\* the one the validator scored, with the fallback validation
BothFellBack ==
    /\ IsValidationPackage(v_out)
    /\ "fallback" \in v_calls
    /\ \E sym \in ExchangeSymbols, tf \in ExchangeTimeframes, parity \in {0, 1} :
          v_out.original_analysis =
              AnalysisPackage(sym, tf, create_fallback_analysis(sym, tf, parity))

\* the numbers after the three "Score:" headings of the record's report
RecordScores ==
    LET ms == FindAll(ClassScore, Lower(v_out.validation_report))
    IN  [i \in 1..Len(ms) |-> ToInt(ms[i])]

\* C31: when the analysis engine and the validation engine both fail in one
\* exchange, the score is 100 whatever the symbol and the timeframe: the
\* package has the four required fields, its payload holds the five
\* keywords, the report gives completeness 100, methodology 100 and overall
\* 100, and the extracted score is 100.
C31_BothFallbacksScore100 ==
    BothFellBack =>
        LET orig == v_out.original_analysis
            payload == Get(orig, "analysis")
        IN  /\ {"symbol", "analysis", "timestamp", "agent_id"} \subseteq Keys(orig)
            /\ \A k \in {"trend", "support", "resistance", "recommendation", "risk"} :
                  \E i \in 1..Len(payload) : WordContains(LowerTok(payload[i]), k)
            /\ RecordScores = <<100, 100, 100>>
            /\ v_out.validation_score = 100

\* both engines failed on "ETH" over four hours, and the record says 100
C31_Witness ==
    /\ BothFellBack
    /\ s_path = "fallback"
    /\ v_out.original_analysis = s_pkg
    /\ Get(s_pkg, "symbol") = <<"ETH">>
    /\ Get(s_pkg, "timeframe") = <<"4", "h">>
    /\ v_out.validation_score = 100

====
